---- MODULE Spec2Model ----
(***************************************************************************)
(* Model of the PDF to Markdown converter's structure reconstruction:      *)
(* PDFProcessor (processTextItems, groupLinesIntoParagraphs,               *)
(* extractAllPages, analyzeStructure, identifyHeadings, ...) and           *)
(* StructureAnalyzer (generateOutline, determineReadingOrder).             *)
(*                                                                         *)
(* Texts are sequences of one-character strings, so that trim, join and    *)
(* the regular expressions of the code are computed, not assumed.          *)
(* A JavaScript value that may be null is a sequence of length 0 or 1.     *)
(***************************************************************************)
EXTENDS Integers, Sequences, FiniteSets, TLC

VARIABLES
    pc,          \* the position of the run
    textItems,   \* processTextItems: the caller's token array (sorted in place)
    lines,       \* the Lines of the page
    paragraphs,  \* the Paragraphs of the page
    regrouped,   \* groupLinesIntoParagraphs run again on one paragraph's lines
    headings,    \* content.structure.headings (generateOutline sorts it in place)
    outlineNodes,\* the outline items built so far; an item is named by its index
    outline,     \* the root items of the outline
    pages,       \* content.pages: the page objects of extractAllPages
    structure,   \* content.structure: headings, lists and tables of all pages
    readingOrder,\* the result of determineReadingOrder
    otherOrder,  \* the same elements collected in another order, then sorted
    doc,         \* the PDF document: what getPage and getTextContent give per page
    pageNum,     \* extractAllPages: the loop counter
    abortController, \* PDFProcessor.abortController, null (<<>>) or a controller
    aborted,     \* the controller's signal.aborted
    result,      \* what processPDF returned, <<>> while it has not
    thrown,      \* the message of the error processPDF threw, <<>> for none
    analysis,    \* the analysis object of StructureAnalyzer: sections,
                 \* enhancedHeadings, enhancedLists, crossReferences
    options,     \* MarkdownGenerator.options
    turndownService, \* MarkdownGenerator.turndownService: the rules added to it
    markdown,    \* what generateMarkdown returned, <<>> while it has not
    queueItems,  \* the queue item objects of PDFToMarkdownApp, by identity
    fileQueue,   \* PDFToMarkdownApp.fileQueue: the queue items in order
    conversionResults, \* PDFToMarkdownApp.conversionResults
    isProcessing,\* PDFToMarkdownApp.isProcessing
    isPaused,    \* PDFToMarkdownApp.isPaused
    runs,        \* the activations of startProcessing: pendingFiles, i, position
    settings     \* PDFToMarkdownApp.settings

pageVars == <<textItems, lines, paragraphs, regrouped>>
outlineVars == <<headings, outlineNodes, outline>>
orderVars == <<pages, structure, readingOrder, otherOrder>>
pdfVars == <<doc, pageNum, abortController, aborted, result, thrown>>
analysisVars == <<analysis>>
generatorVars == <<options, turndownService, markdown>>
appVars == <<queueItems, fileQueue, conversionResults, isProcessing, isPaused, runs,
             settings>>
vars == <<pc, pageVars, outlineVars, orderVars, pdfVars, analysisVars,
          generatorVars, appVars>>

(***************************************************************************)
(* Bounds of the model.                                                    *)
(***************************************************************************)
MaxTokens == 3
MaxLines == 3
MaxHeadings == 4
MaxElements == 3
MaxPages == 3

(***************************************************************************)
(* Generic helpers.                                                        *)
(***************************************************************************)
Abs(n) == IF n < 0 THEN -n ELSE n

SeqsUpTo(S, n) == UNION {[1..k -> S] : k \in 0..n}

Perms(n) == {p \in [1..n -> 1..n] : \A i, j \in 1..n : p[i] = p[j] => i = j}

RECURSIVE MaxOf(_)
MaxOf(s) == IF Len(s) = 1 THEN s[1]
            ELSE LET m == MaxOf(Tail(s)) IN IF s[1] > m THEN s[1] ELSE m

RECURSIVE Some(_)
Some(s) == IF s = <<>> THEN FALSE ELSE s[1] \/ Some(Tail(s))

Map(s, F(_)) == [i \in 1..Len(s) |-> F(s[i])]

(***************************************************************************)
(* Strings: String.prototype.trim and Array.prototype.join(' ').           *)
(***************************************************************************)
\* The characters \s matches and trim removes that occur in the model.
WhiteSpace == {" ", "\t", "\n"}

IsSpace(c) == c \in WhiteSpace

Digits == {"0", "1", "2", "3", "4", "5", "6", "7", "8", "9"}

Letters ==
    {"a", "b", "c", "d", "e", "f", "g", "h", "i", "j", "k", "l", "m",
     "n", "o", "p", "q", "r", "s", "t", "u", "v", "w", "x", "y", "z",
     "A", "B", "C", "D", "E", "F", "G", "H", "I", "J", "K", "L", "M",
     "N", "O", "P", "Q", "R", "S", "T", "U", "V", "W", "X", "Y", "Z"}

\* The six typographic bullets of the list patterns, each one character,
\* named by its code point.
BulletChars == {"U+2022", "U+00B7", "U+25AA", "U+25AB", "U+2023", "U+2043"}

StartsWith(t, prefix) ==
    Len(t) >= Len(prefix) /\ SubSeq(t, 1, Len(prefix)) = prefix

\* The length of the longest prefix of t made of characters of set S.
PrefixLen(t, S) ==
    IF \A i \in 1..Len(t) : t[i] \in S THEN Len(t)
    ELSE (CHOOSE i \in 1..Len(t) :
             t[i] \notin S /\ \A j \in 1..(i - 1) : t[j] \in S) - 1

\* t.split(/\s{3,}/): i is the first place where three whitespace characters
\* start; the separator is the whole run of whitespace from there.
RECURSIVE SplitWide(_)
SplitWide(t) ==
    LET starts == {i \in 1..Len(t) - 2 :
                     IsSpace(t[i]) /\ IsSpace(t[i + 1]) /\ IsSpace(t[i + 2])}
    IN IF starts = {} THEN <<t>>
       ELSE LET i == CHOOSE k \in starts : \A m \in starts : k <= m
                r == PrefixLen(SubSeq(t, i, Len(t)), WhiteSpace)
            IN <<SubSeq(t, 1, i - 1)>> \o SplitWide(SubSeq(t, i + r, Len(t)))

TrimStart(t) == SubSeq(t, PrefixLen(t, WhiteSpace) + 1, Len(t))

TrimEnd(t) ==
    IF \A i \in 1..Len(t) : IsSpace(t[i]) THEN <<>>
    ELSE SubSeq(t, 1, CHOOSE i \in 1..Len(t) :
                         ~IsSpace(t[i]) /\ \A j \in (i + 1)..Len(t) : IsSpace(t[j]))

Trim(t) == TrimEnd(TrimStart(t))

RECURSIVE JoinSpace(_)
JoinSpace(ts) == IF ts = <<>> THEN <<>>
                 ELSE IF Len(ts) = 1 THEN ts[1]
                 ELSE ts[1] \o <<" ">> \o JoinSpace(Tail(ts))

(***************************************************************************)
(* Array.prototype.sort.  With a consistent comparator the result is the   *)
(* stable sort.  With an inconsistent one (ECMAScript 23.1.3.30) the order *)
(* is implementation-defined: any permutation of the array.                *)
(***************************************************************************)
Consistent(s, Cmp(_, _)) ==
    LET I == 1..Len(s)
        lt(i, j) == Cmp(s[i], s[j]) < 0
        eq(i, j) == Cmp(s[i], s[j]) = 0
        gt(i, j) == Cmp(s[i], s[j]) > 0
    IN /\ \A i \in I : eq(i, i)
       /\ \A i, j \in I : (lt(i, j) <=> gt(j, i)) /\ (eq(i, j) <=> eq(j, i))
       /\ \A i, j, k \in I : /\ (eq(i, j) /\ eq(j, k)) => eq(i, k)
                             /\ (lt(i, j) /\ lt(j, k)) => lt(i, k)
                             /\ (lt(i, j) /\ eq(j, k)) => lt(i, k)
                             /\ (eq(i, j) /\ lt(j, k)) => lt(i, k)

\* The stable sort: equal elements keep their order in the array.  rank(i) is
\* the place of s[i] in the result.
StableSort(s, Cmp(_, _)) ==
    LET I == 1..Len(s)
        before(j, i) == \/ Cmp(s[j], s[i]) < 0
                        \/ Cmp(s[j], s[i]) = 0 /\ j < i
        rank(i) == 1 + Cardinality({j \in I : before(j, i)})
    IN [k \in I |-> s[CHOOSE i \in I : rank(i) = k]]

SortOutcomes(s, Cmp(_, _)) ==
    IF Consistent(s, Cmp) THEN {StableSort(s, Cmp)}
    ELSE {[i \in 1..Len(s) |-> s[p[i]]] : p \in Perms(Len(s))}

(***************************************************************************)
(* Numbers that may be missing.  A coordinate that is absent from a token  *)
(* (item.transform[4] or [5] of a short transform) is undefined, and       *)
(* arithmetic on undefined gives NaN; both are the one value Undefined,    *)
(* which no coordinate of the model takes.  A comparison with NaN is       *)
(* false.                                                                  *)
(***************************************************************************)
Undefined == -1000000

Defined(v) == v # Undefined

\* a - b
Minus(a, b) == IF Defined(a) /\ Defined(b) THEN a - b ELSE Undefined

\* Math.abs(v)
AbsOf(v) == IF Defined(v) THEN Abs(v) ELSE Undefined

\* a < b
Less(a, b) == Defined(a) /\ Defined(b) /\ a < b

\* a > b
Greater(a, b) == Defined(a) /\ Defined(b) /\ a > b

(***************************************************************************)
(* PDFProcessor.processTextItems: the Line Assembler.                      *)
(***************************************************************************)
SameLineThreshold == 5

\* The comparator of textItems.sort.  The sort takes a NaN result for 0
\* (ECMAScript SortCompare).
compareItems(a, b) ==
    LET v == IF Less(AbsOf(Minus(a.y, b.y)), SameLineThreshold)
             THEN Minus(a.x, b.x) ELSE Minus(b.y, a.y)
    IN IF Defined(v) THEN v ELSE 0

\* The object pushed for a finished line.
makeLine(currentY, currentLine) ==
    [y        |-> currentY,
     items    |-> currentLine,
     text     |-> Trim(JoinSpace(Map(currentLine, LAMBDA i : i.text))),
     fontSize |-> MaxOf(Map(currentLine, LAMBDA i : i.fontSize)),
     bold     |-> Some(Map(currentLine, LAMBDA i : i.bold)),
     italic   |-> Some(Map(currentLine, LAMBDA i : i.italic))]

\* A token joins the current line.
sameLine(item, currentY) ==
    currentY = <<>> \/ Less(AbsOf(Minus(item.y, currentY[1])), SameLineThreshold)

\* The y the loop remembers after a token joined the current line.
joinedY(item, currentY) == item.y

\* The loop over the sorted items; acc = [lines, currentLine, currentY].
RECURSIVE groupItems(_, _)
groupItems(items, acc) ==
    IF items = <<>> THEN acc
    ELSE LET item == items[1] IN
         IF sameLine(item, acc.currentY)
         THEN groupItems(Tail(items),
                [lines       |-> acc.lines,
                 currentLine |-> Append(acc.currentLine, item),
                 currentY    |-> <<joinedY(item, acc.currentY)>>])
         ELSE groupItems(Tail(items),
                [lines       |-> IF Len(acc.currentLine) > 0
                                 THEN Append(acc.lines,
                                        makeLine(acc.currentY[1], acc.currentLine))
                                 ELSE acc.lines,
                 currentLine |-> <<item>>,
                 currentY    |-> <<item.y>>])

\* The lines built from the sorted items, the last line included.
assembleLines(sorted) ==
    LET acc == groupItems(sorted, [lines |-> <<>>, currentLine |-> <<>>,
                                   currentY |-> <<>>])
    IN IF Len(acc.currentLine) > 0
       THEN Append(acc.lines, makeLine(acc.currentY[1], acc.currentLine))
       ELSE acc.lines

(***************************************************************************)
(* PDFProcessor.groupLinesIntoParagraphs: the Paragraph Segmenter.         *)
(***************************************************************************)
LargeGap == 20
FontSizeChange == 2

\* A variant of lineSpacing that forgets Math.abs.
lineSpacing_NoAbs(lastY, line) ==
    IF lastY # <<>> THEN Minus(lastY[1], line.y) ELSE 0

\* lastY is null (<<>>) before the first line.
lineSpacing(lastY, line) ==
    IF lastY # <<>> THEN AbsOf(Minus(lastY[1], line.y)) ELSE 0

\* A variant of isNewParagraph in which an empty line is skipped without
\* closing the paragraph.
isNewParagraph_NoBlank(line, lastY, currentParagraph) ==
    \/ Greater(lineSpacing(lastY, line), LargeGap)
    \/ /\ Len(currentParagraph) > 0
       /\ Abs(line.fontSize - currentParagraph[1].fontSize) > FontSizeChange

\* A variant of isNewParagraph that ignores the vertical gap.
isNewParagraph_NoGap(line, lastY, currentParagraph) ==
    \/ Trim(line.text) = <<>>
    \/ /\ Len(currentParagraph) > 0
       /\ Abs(line.fontSize - currentParagraph[1].fontSize) > FontSizeChange

isNewParagraph(line, lastY, currentParagraph) ==
    \/ Greater(lineSpacing(lastY, line), LargeGap)
    \/ Trim(line.text) = <<>>
    \/ /\ Len(currentParagraph) > 0
       /\ Abs(line.fontSize - currentParagraph[1].fontSize) > FontSizeChange

\* The object pushed for a finished paragraph.
makeParagraph(currentParagraph) ==
    [lines    |-> currentParagraph,
     text     |-> Trim(JoinSpace(Map(currentParagraph, LAMBDA l : l.text))),
     fontSize |-> currentParagraph[1].fontSize,
     bold     |-> currentParagraph[1].bold,
     italic   |-> currentParagraph[1].italic,
     y        |-> currentParagraph[1].y]

\* The loop over the lines; acc = [paragraphs, currentParagraph, lastY].
RECURSIVE groupLines(_, _)
groupLines(ls, acc) ==
    IF ls = <<>> THEN acc
    ELSE LET line    == ls[1]
             flush   == isNewParagraph(line, acc.lastY, acc.currentParagraph)
                        /\ Len(acc.currentParagraph) > 0
             ps      == IF flush
                        THEN Append(acc.paragraphs, makeParagraph(acc.currentParagraph))
                        ELSE acc.paragraphs
             cur     == IF flush THEN <<>> ELSE acc.currentParagraph
         IN groupLines(Tail(ls),
              [paragraphs       |-> ps,
               currentParagraph |-> IF Trim(line.text) # <<>>
                                    THEN Append(cur, line) ELSE cur,
               lastY            |-> <<line.y>>])

groupLinesIntoParagraphs(ls) ==
    IF Len(ls) = 0 THEN <<>>
    ELSE LET acc == groupLines(ls, [paragraphs |-> <<>>, currentParagraph |-> <<>>,
                                    lastY |-> <<>>])
         IN IF Len(acc.currentParagraph) > 0
            THEN Append(acc.paragraphs, makeParagraph(acc.currentParagraph))
            ELSE acc.paragraphs

\* processTextItems: sort in place, assemble the lines, group them.
processTextItemsLines(sorted) ==
    IF Len(sorted) = 0 THEN <<>> ELSE assembleLines(sorted)

(***************************************************************************)
(* PDFProcessor.identifyHeadings.  avgFontSize is sum / n; a comparison    *)
(* fontSize > avgFontSize * k/10 is made on integers as                    *)
(* fontSize * n * 10 > sum * k.  With no positive fontSize the average is  *)
(* NaN and every comparison with it is false.                              *)
(*                                                                         *)
(* The code computes (sum / n) * 1.2 in IEEE 754 doubles.  For whole font  *)
(* sizes the double product decides as the exact product does, except      *)
(* where fontSize equals the exact product and the double product is       *)
(* smaller (35 / 3 * 1.2 is 13.999999999999998).  RoundsBelow lists these  *)
(* cases <<sum, n, k>> for n <= 6 and sum < 150, the range of the model.   *)
(***************************************************************************)
ShortText == 100

RoundsBelow ==
    {<<35, 3, 12>>, <<55, 3, 12>>, <<70, 3, 12>>, <<110, 3, 12>>, <<125, 3, 12>>,
     <<140, 3, 12>>, <<35, 6, 12>>, <<55, 6, 12>>, <<70, 6, 12>>, <<110, 6, 12>>,
     <<125, 6, 12>>, <<140, 6, 12>>}

RECURSIVE Sum(_)
Sum(s) == IF s = <<>> THEN 0 ELSE s[1] + Sum(Tail(s))

positiveFontSizes(ps) ==
    SelectSeq(Map(ps, LAMBDA p : p.fontSize), LAMBDA f : f > 0)

\* paragraph.fontSize > avgFontSize * tenths / 10
largerThanAvg(fontSize, fontSizes, tenths) ==
    /\ Len(fontSizes) > 0
    /\ \/ fontSize * Len(fontSizes) * 10 > Sum(fontSizes) * tenths
       \/ /\ fontSize * Len(fontSizes) * 10 = Sum(fontSizes) * tenths
          /\ <<Sum(fontSizes), Len(fontSizes), tenths>> \in RoundsBelow

\* /^(Chapter|Section|\d+\.|\d+\.\d+)/
hasHeadingPattern(t) ==
    \/ StartsWith(t, <<"C", "h", "a", "p", "t", "e", "r">>)
    \/ StartsWith(t, <<"S", "e", "c", "t", "i", "o", "n">>)
    \/ LET d == PrefixLen(t, Digits) IN d > 0 /\ Len(t) > d /\ t[d + 1] = "."

isHeading(paragraph, fontSizes) ==
    /\ \/ largerThanAvg(paragraph.fontSize, fontSizes, 12)
       \/ paragraph.bold
       \/ hasHeadingPattern(Trim(paragraph.text))
    /\ Len(paragraph.text) < ShortText

headingLevel(fontSize, fontSizes) ==
    IF largerThanAvg(fontSize, fontSizes, 18) THEN 1
    ELSE IF largerThanAvg(fontSize, fontSizes, 15) THEN 2
    ELSE IF largerThanAvg(fontSize, fontSizes, 13) THEN 3
    ELSE IF largerThanAvg(fontSize, fontSizes, 11) THEN 4
    ELSE 5

identifyHeadings(ps) ==
    LET fontSizes == positiveFontSizes(ps)
    IN Map(SelectSeq(ps, LAMBDA p : isHeading(p, fontSizes)),
           LAMBDA p : [text |-> Trim(p.text),
                       level |-> headingLevel(p.fontSize, fontSizes),
                       fontSize |-> p.fontSize, bold |-> p.bold, y |-> p.y])

(***************************************************************************)
(* PDFProcessor.identifyLists.                                             *)
(***************************************************************************)
\* /^[bullets]\s/ or /^[-*+]\s/
isBulletPoint(t) ==
    Len(t) >= 2 /\ t[1] \in BulletChars \cup {"-", "*", "+"} /\ IsSpace(t[2])

\* /^\d+[.)]\s/
isNumberedItem(t) ==
    LET d == PrefixLen(t, Digits)
    IN d > 0 /\ Len(t) >= d + 2 /\ t[d + 1] \in {".", ")"} /\ IsSpace(t[d + 2])

\* /^[a-zA-Z][.)]\s/
isLetterItem(t) ==
    Len(t) >= 3 /\ t[1] \in Letters /\ t[2] \in {".", ")"} /\ IsSpace(t[3])

\* The length of the match of /^([bullets\-*+]|\d+[.)]|[a-zA-Z][.)])/, 0 for none.
markerLen(t) ==
    LET d == PrefixLen(t, Digits) IN
    IF Len(t) >= 1 /\ t[1] \in BulletChars \cup {"-", "*", "+"} THEN 1
    ELSE IF d > 0 /\ Len(t) > d /\ t[d + 1] \in {".", ")"} THEN d + 1
    ELSE IF Len(t) >= 2 /\ t[1] \in Letters /\ t[2] \in {".", ")"} THEN 2
    ELSE 0

\* A variant of stripMarker that leaves the marker in the item's text.
stripMarker_Keep(t) == Trim(t)

\* text.replace(/^(marker)\s/, '').trim().  The alternatives are tried in
\* order and the first that is followed by whitespace is replaced.
stripMarker(t) ==
    LET d == PrefixLen(t, Digits)
        n == IF Len(t) >= 2 /\ t[1] \in BulletChars \cup {"-", "*", "+"}
                /\ IsSpace(t[2]) THEN 1
             ELSE IF isNumberedItem(t) THEN d + 1
             ELSE IF isLetterItem(t) THEN 2
             ELSE 0
    IN IF n = 0 THEN Trim(t) ELSE Trim(SubSeq(t, n + 2, Len(t)))

listItem(paragraph) ==
    LET t == Trim(paragraph.text)
    IN [text |-> stripMarker(t), marker |-> SubSeq(t, 1, markerLen(t)),
        y |-> paragraph.y]

\* A variant of startsNewList that lets a list go on when the type changes.
startsNewList_AnyType(currentList, listType) == currentList = <<>>

\* if (!currentList || currentList.type !== listType)
startsNewList(currentList, listType) ==
    currentList = <<>> \/ currentList[1].type # listType

\* The loop over the paragraphs; acc = [lists, currentList], currentList null
\* (<<>>) or one list.
RECURSIVE groupLists(_, _)
groupLists(ps, acc) ==
    IF ps = <<>> THEN acc
    ELSE LET paragraph == ps[1]
             t         == Trim(paragraph.text)
             cur       == acc.currentList
         IN IF isBulletPoint(t) \/ isNumberedItem(t) \/ isLetterItem(t)
            THEN LET listType == IF isBulletPoint(t) THEN "unordered" ELSE "ordered"
                     fresh    == startsNewList(cur, listType)
                     base     == IF fresh
                                 THEN [type |-> listType, items |-> <<>>,
                                       y |-> paragraph.y]
                                 ELSE cur[1]
                 IN groupLists(Tail(ps),
                      [lists |-> IF fresh /\ cur # <<>>
                                 THEN Append(acc.lists, cur[1]) ELSE acc.lists,
                       currentList |->
                           <<[base EXCEPT !.items = Append(@, listItem(paragraph))]>>])
            ELSE groupLists(Tail(ps),
                   [lists |-> acc.lists \o cur, currentList |-> <<>>])

identifyLists(ps) ==
    LET acc == groupLists(ps, [lists |-> <<>>, currentList |-> <<>>])
    IN acc.lists \o acc.currentList

(***************************************************************************)
(* PDFProcessor.identifyTables.                                            *)
(***************************************************************************)
MinSegments == 3
MinRows == 2
RowGap == 30

potentialTableLines(ls) ==
    Map(SelectSeq(ls, LAMBDA l : Len(SplitWide(l.text)) >= MinSegments),
        LAMBDA l : [line |-> l, segments |-> SplitWide(l.text),
                    segmentCount |-> Len(SplitWide(l.text))])

makeTable(currentTable) ==
    [rows |-> Map(currentTable, LAMBDA row : [text |-> row.line.text,
                                             segments |-> row.segments,
                                             y |-> row.line.y]),
     columnCount |-> currentTable[1].segmentCount,
     y |-> currentTable[1].line.y]

\* A variant of extendsTable that compares the segment count with that of the
\* row before, not with that of the first row.
extendsTable_ToPrevious(current, currentTable) ==
    /\ Abs(current.line.y - currentTable[Len(currentTable)].line.y) < RowGap
    /\ Abs(current.segmentCount - currentTable[Len(currentTable)].segmentCount) <= 1

extendsTable(current, currentTable) ==
    /\ Abs(current.line.y - currentTable[Len(currentTable)].line.y) < RowGap
    /\ Abs(current.segmentCount - currentTable[1].segmentCount) <= 1

\* The loop over the potential rows; acc = [tables, currentTable].
RECURSIVE groupRows(_, _)
groupRows(rows, acc) ==
    IF rows = <<>> THEN acc
    ELSE LET current == rows[1] IN
         IF Len(acc.currentTable) = 0
         THEN groupRows(Tail(rows), [acc EXCEPT !.currentTable = <<current>>])
         ELSE IF extendsTable(current, acc.currentTable)
         THEN groupRows(Tail(rows),
                [acc EXCEPT !.currentTable = Append(@, current)])
         ELSE groupRows(Tail(rows),
                [tables |-> IF Len(acc.currentTable) >= MinRows
                            THEN Append(acc.tables, makeTable(acc.currentTable))
                            ELSE acc.tables,
                 currentTable |-> <<current>>])

identifyTables(ls) ==
    LET rows == potentialTableLines(ls)
    IN IF Len(rows) >= MinRows
       THEN LET acc == groupRows(rows, [tables |-> <<>>, currentTable |-> <<>>])
            IN IF Len(acc.currentTable) >= MinRows
               THEN Append(acc.tables, makeTable(acc.currentTable))
               ELSE acc.tables
       ELSE <<>>

(***************************************************************************)
(* StructureAnalyzer.generateOutline: the Outline Builder.                 *)
(***************************************************************************)
\* The comparator of content.structure.headings.sort.
compareHeadings(a, b) ==
    IF a.pageNumber # b.pageNumber THEN a.pageNumber - b.pageNumber
    ELSE b.y - a.y

\* A variant of mustPop that keeps a heading of the same level on the stack.
mustPop_Strict(top, heading) == top.level > heading.level

\* while (stack.length > 0 && stack[stack.length - 1].level >= heading.level)
mustPop(top, heading) == top.level >= heading.level

\* A variant of popStack that pops at most one item (an if for the while).
popStack_Once(stack, nodes, heading) ==
    IF Len(stack) > 0 /\ mustPop(nodes[stack[Len(stack)]], heading)
    THEN SubSeq(stack, 1, Len(stack) - 1)
    ELSE stack

RECURSIVE popStack(_, _, _)
popStack(stack, nodes, heading) ==
    IF Len(stack) > 0 /\ mustPop(nodes[stack[Len(stack)]], heading)
    THEN popStack(SubSeq(stack, 1, Len(stack) - 1), nodes, heading)
    ELSE stack

\* The loop over the sorted headings; acc = [nodes, outline, stack].  An item
\* is the index of its record in nodes, and children lists hold indices.
RECURSIVE buildOutline(_, _)
buildOutline(hs, acc) ==
    IF hs = <<>> THEN acc
    ELSE LET heading == hs[1]
             item    == [text |-> heading.text, level |-> heading.level,
                         pageNumber |-> heading.pageNumber, children |-> <<>>]
             ref     == Len(acc.nodes) + 1
             stack   == popStack(acc.stack, acc.nodes, heading)
             top     == stack[Len(stack)]
             nodes   == IF Len(stack) = 0 THEN acc.nodes
                        ELSE [acc.nodes EXCEPT ![top].children = Append(@, ref)]
         IN buildOutline(Tail(hs),
              [nodes   |-> Append(nodes, item),
               outline |-> IF Len(stack) = 0 THEN Append(acc.outline, ref)
                           ELSE acc.outline,
               stack   |-> Append(stack, ref)])

generateOutline(sorted) ==
    buildOutline(sorted, [nodes |-> <<>>, outline |-> <<>>, stack |-> <<>>])

OutlineIdle ==
    /\ headings = <<>>
    /\ outlineNodes = <<>>
    /\ outline = <<>>

(***************************************************************************)
(* StructureAnalyzer.determineReadingOrder and calculateReadingOrder.      *)
(***************************************************************************)
PageStride == 10000

\* A variant of calculateReadingOrder with a stride of 1000 for the page.
calculateReadingOrder_ShortStride(pageNumber, y) ==
    pageNumber * 1000 + (PageStride - y)

calculateReadingOrder(pageNumber, y) ==
    pageNumber * PageStride + (PageStride - y)

element(type, content, pageNumber) ==
    [type |-> type, content |-> content, pageNumber |-> pageNumber,
     y |-> content.y, order |-> calculateReadingOrder(pageNumber, content.y)]

OnPage(s, pageNumber) == SelectSeq(s, LAMBDA e : e.pageNumber = pageNumber)

\* A variant of collectKind that leaves out the paragraphs that
\* identifyHeadings flagged.
collectKind_Unflagged(kind, page, struct) ==
    CASE kind = "heading" ->
           Map(OnPage(struct.headings, page.pageNumber),
               LAMBDA h : element("heading", h, page.pageNumber))
      [] kind = "paragraph" ->
           Map(SelectSeq(page.content.paragraphs,
                         LAMBDA p : \A i \in 1..Len(struct.headings) :
                                       \/ struct.headings[i].pageNumber # page.pageNumber
                                       \/ struct.headings[i].y # p.y),
               LAMBDA p : element("paragraph", p, page.pageNumber))
      [] kind = "list" ->
           Map(OnPage(struct.lists, page.pageNumber),
               LAMBDA l : element("list", l, page.pageNumber))
      [] kind = "table" ->
           Map(OnPage(struct.tables, page.pageNumber),
               LAMBDA t : element("table", t, page.pageNumber))

\* The elements one kind contributes for a page.
collectKind(kind, page, struct) ==
    CASE kind = "heading" ->
           Map(OnPage(struct.headings, page.pageNumber),
               LAMBDA h : element("heading", h, page.pageNumber))
      [] kind = "paragraph" ->
           Map(page.content.paragraphs,
               LAMBDA p : element("paragraph", p, page.pageNumber))
      [] kind = "list" ->
           Map(OnPage(struct.lists, page.pageNumber),
               LAMBDA l : element("list", l, page.pageNumber))
      [] kind = "table" ->
           Map(OnPage(struct.tables, page.pageNumber),
               LAMBDA t : element("table", t, page.pageNumber))

\* The loop over the pages, collecting the kinds in the order given.
RECURSIVE collectElements(_, _, _)
collectElements(ps, struct, kinds) ==
    IF ps = <<>> THEN <<>>
    ELSE collectKind(kinds[1], ps[1], struct) \o collectKind(kinds[2], ps[1], struct)
         \o collectKind(kinds[3], ps[1], struct) \o collectKind(kinds[4], ps[1], struct)
         \o collectElements(Tail(ps), struct, kinds)

\* The order in which determineReadingOrder collects.
CollectionOrder == <<"heading", "paragraph", "list", "table">>

\* The comparator of elements.sort.
compareOrder(a, b) == a.order - b.order

sortByOrder(elements) == StableSort(elements, compareOrder)

determineReadingOrder(ps, struct) ==
    sortByOrder(collectElements(ps, struct, CollectionOrder))

OrderIdle ==
    /\ pages = <<>>
    /\ structure = [headings |-> <<>>, lists |-> <<>>, tables |-> <<>>]
    /\ readingOrder = <<>>
    /\ otherOrder = <<>>

(***************************************************************************)
(* StructureAnalyzer.identifySections and extractSectionContent.  A        *)
(* heading that may be undefined (nextHeading, endHeading) is a sequence   *)
(* of length 0 or 1.                                                       *)
(***************************************************************************)
BlankLine == <<"\n", "\n">>

\* The loop over the paragraphs of one page; acc = [content, collecting].
\* The loop ends at the end heading.
RECURSIVE collectParagraphs(_, _, _, _)
collectParagraphs(ps, startHeading, endHeading, acc) ==
    IF ps = <<>> THEN acc
    ELSE LET paragraph == ps[1]
             isStartHeading == /\ paragraph.y = startHeading.y
                               /\ paragraph.text = startHeading.text
             isEndHeading == /\ endHeading # <<>>
                             /\ paragraph.y = endHeading[1].y
                             /\ paragraph.text = endHeading[1].text
         IN IF isStartHeading
            THEN collectParagraphs(Tail(ps), startHeading, endHeading,
                                   [acc EXCEPT !.collecting = TRUE])
            ELSE IF isEndHeading THEN [acc EXCEPT !.collecting = FALSE]
            ELSE collectParagraphs(Tail(ps), startHeading, endHeading,
                   IF acc.collecting
                   THEN [acc EXCEPT !.content = @ \o paragraph.text \o BlankLine]
                   ELSE acc)

\* The loop over the pages.
RECURSIVE collectPages(_, _, _, _)
collectPages(ps, startHeading, endHeading, acc) ==
    IF ps = <<>> THEN acc
    ELSE LET page == ps[1] IN
         IF page.pageNumber < startHeading.pageNumber
         THEN collectPages(Tail(ps), startHeading, endHeading, acc)
         ELSE IF endHeading # <<>> /\ page.pageNumber > endHeading[1].pageNumber
         THEN acc
         ELSE LET after == collectParagraphs(page.content.paragraphs,
                                             startHeading, endHeading, acc)
              IN IF ~after.collecting /\ endHeading # <<>> THEN after
                 ELSE collectPages(Tail(ps), startHeading, endHeading, after)

extractSectionContent(ps, startHeading, endHeading) ==
    Trim(collectPages(ps, startHeading, endHeading,
                      [content |-> <<>>, collecting |-> FALSE]).content)

\* sectionContent.split(/\s+/).length: one more than the runs of whitespace.
wordCount(t) ==
    1 + Cardinality({i \in 1..Len(t) : IsSpace(t[i]) /\ (i = 1 \/ ~IsSpace(t[i - 1]))})

hasSubsections(hs, heading, nextHeading) ==
    \E i \in 1..Len(hs) :
        LET h == hs[i] IN
        /\ h.level > heading.level
        /\ h.pageNumber >= heading.pageNumber
        /\ \/ nextHeading = <<>>
           \/ h.pageNumber < nextHeading[1].pageNumber
           \/ h.pageNumber = nextHeading[1].pageNumber /\ h.y > nextHeading[1].y

\* The section pushed for headings[i]; nextHeading is headings[i + 1].
section(ps, hs, i) ==
    LET heading == hs[i]
        nextHeading == IF i < Len(hs) THEN <<hs[i + 1]>> ELSE <<>>
        sectionContent == extractSectionContent(ps, heading, nextHeading)
    IN [title |-> heading.text, level |-> heading.level,
        pageNumber |-> heading.pageNumber, startY |-> heading.y,
        endY |-> IF nextHeading # <<>> THEN nextHeading[1].y ELSE 0,
        content |-> sectionContent, wordCount |-> wordCount(sectionContent),
        hasSubsections |-> hasSubsections(hs, heading, nextHeading)]

\* The sections for the sorted headings.
identifySections(ps, sorted) == [i \in 1..Len(sorted) |-> section(ps, sorted, i)]

(***************************************************************************)
(* StructureAnalyzer.enhanceHeadings: cleanHeadingText, generateAnchor,    *)
(* extractNumbering and detectHeadingType.                                 *)
(***************************************************************************)
UpperCase ==
    <<"A", "B", "C", "D", "E", "F", "G", "H", "I", "J", "K", "L", "M",
      "N", "O", "P", "Q", "R", "S", "T", "U", "V", "W", "X", "Y", "Z">>

LowerCase ==
    <<"a", "b", "c", "d", "e", "f", "g", "h", "i", "j", "k", "l", "m",
      "n", "o", "p", "q", "r", "s", "t", "u", "v", "w", "x", "y", "z">>

IsUpper(c) == \E i \in 1..26 : UpperCase[i] = c

IsLower(c) == \E i \in 1..26 : LowerCase[i] = c

\* String.prototype.toLowerCase on one character.
ToLower(c) == IF IsUpper(c) THEN LowerCase[CHOOSE i \in 1..26 : UpperCase[i] = c]
              ELSE c

\* t without its first n characters.
Drop(t, n) == SubSeq(t, n + 1, Len(t))

\* t starts with word, whatever the case of its letters (the i flag); word
\* is given in lower case.
StartsWithIgnoreCase(t, word) ==
    /\ Len(t) >= Len(word)
    /\ \A i \in 1..Len(word) : ToLower(t[i]) = word[i]

\* The length of the match of (\.\d+)* at the start of t.
RECURSIVE dottedLen(_)
dottedLen(t) ==
    IF Len(t) >= 2 /\ t[1] = "." /\ t[2] \in Digits
    THEN LET d == PrefixLen(Tail(t), Digits)
         IN 1 + d + dottedLen(Drop(t, 1 + d))
    ELSE 0

\* The length of the match of /^\d+(\.\d+)*/ at the start of t, 0 for none.
decimalLen(t) ==
    LET d == PrefixLen(t, Digits)
    IN IF d = 0 THEN 0 ELSE d + dottedLen(Drop(t, d))

\* text.replace(/^\d+(\.\d+)*\s*/, '')
removeNumbering(t) ==
    LET n == decimalLen(t)
        r == Drop(t, n)
    IN IF n = 0 THEN t ELSE Drop(r, PrefixLen(r, WhiteSpace))

PrefixWords ==
    {<<"c", "h", "a", "p", "t", "e", "r">>, <<"s", "e", "c", "t", "i", "o", "n">>,
     <<"p", "a", "r", "t">>, <<"a", "p", "p", "e", "n", "d", "i", "x">>}

\* The length of the match of /^word\s+\d+\s*/i at the start of t, 0 for none.
prefixLen(t, word) ==
    LET r == Drop(t, Len(word))
        s == PrefixLen(r, WhiteSpace)
        d == PrefixLen(Drop(r, s), Digits)
    IN IF StartsWithIgnoreCase(t, word) /\ s > 0 /\ d > 0
       THEN Len(word) + s + d + PrefixLen(Drop(r, s + d), WhiteSpace)
       ELSE 0

\* text.replace(/^(Chapter|Section|Part|Appendix)\s+\d+\s*/i, ''); at most
\* one of the four words starts t.
removePrefix(t) ==
    IF \E w \in PrefixWords : prefixLen(t, w) > 0
    THEN Drop(t, prefixLen(t, CHOOSE w \in PrefixWords : prefixLen(t, w) > 0))
    ELSE t

\* text.replace(/\s+/g, ' '): every run of whitespace becomes one space.
RECURSIVE normalizeSpaces(_)
normalizeSpaces(t) ==
    IF t = <<>> THEN <<>>
    ELSE IF IsSpace(t[1])
    THEN <<" ">> \o normalizeSpaces(Drop(t, PrefixLen(t, WhiteSpace)))
    ELSE LET n == PrefixLen(t, {t[i] : i \in 1..Len(t)} \ WhiteSpace)
         IN SubSeq(t, 1, n) \o normalizeSpaces(Drop(t, n))

cleanHeadingText(text) ==
    normalizeSpaces(Trim(removePrefix(removeNumbering(text))))

\* \w
WordChars == Letters \cup Digits \cup {"_"}

\* The text with every run of characters of set S replaced by the one
\* character c.
RECURSIVE replaceRuns(_, _, _)
replaceRuns(t, S, c) ==
    IF t = <<>> THEN <<>>
    ELSE IF t[1] \in S
    THEN <<c>> \o replaceRuns(Drop(t, PrefixLen(t, S)), S, c)
    ELSE LET n == PrefixLen(t, {t[i] : i \in 1..Len(t)} \ S)
         IN SubSeq(t, 1, n) \o replaceRuns(Drop(t, n), S, c)

\* text.replace(/^-|-$/g, '')
stripHyphens(t) ==
    LET r == IF t # <<>> /\ t[1] = "-" THEN Tail(t) ELSE t
    IN IF r # <<>> /\ r[Len(r)] = "-" THEN SubSeq(r, 1, Len(r) - 1) ELSE r

generateAnchor(text) ==
    LET lower == [i \in 1..Len(text) |-> ToLower(text[i])]
        kept  == SelectSeq(lower,
                   LAMBDA c : c \in WordChars \cup WhiteSpace \cup {"-"})
    IN stripHyphens(replaceRuns(replaceRuns(kept, WhiteSpace, "-"), {"-"}, "-"))

RomanChars == {"I", "V", "X", "L", "C", "D", "M", "i", "v", "x", "l", "c", "d", "m"}

\* The first of the patterns decimal, roman, letter and chapter that matches;
\* null is <<>>.  A text the chapter pattern matches starts with a letter, so
\* an earlier pattern has matched it.
extractNumbering(text) ==
    IF decimalLen(text) > 0
    THEN <<[type |-> "decimal", value |-> SubSeq(text, 1, decimalLen(text)),
            full |-> SubSeq(text, 1, decimalLen(text))]>>
    ELSE IF PrefixLen(text, RomanChars) > 0
    THEN <<[type |-> "roman", value |-> SubSeq(text, 1, PrefixLen(text, RomanChars)),
            full |-> SubSeq(text, 1, PrefixLen(text, RomanChars))]>>
    ELSE IF text # <<>> /\ text[1] \in Letters
    THEN <<[type |-> "letter", value |-> <<text[1]>>, full |-> <<text[1]>>]>>
    ELSE <<>>

\* /^(word|abbreviation)\s+/i followed by a character of set S.
startsLabelled(t, words, S) ==
    \E w \in words :
        LET r == Drop(t, Len(w))
            s == PrefixLen(r, WhiteSpace)
        IN StartsWithIgnoreCase(t, w) /\ s > 0 /\ Len(r) > s /\ r[s + 1] \in S

detectHeadingType(text) ==
    IF startsLabelled(text, {<<"c", "h", "a", "p", "t", "e", "r">>,
                             <<"c", "h", ".">>}, Digits)
    THEN "chapter"
    ELSE IF startsLabelled(text, {<<"s", "e", "c", "t", "i", "o", "n">>,
                                  <<"s", "e", "c", ".">>}, Digits)
    THEN "section"
    ELSE IF startsLabelled(text, {<<"a", "p", "p", "e", "n", "d", "i", "x">>,
                                  <<"a", "p", "p", ".">>}, Letters)
    THEN "appendix"
    ELSE IF decimalLen(text) > 0 /\ Len(text) > decimalLen(text)
            /\ IsSpace(text[decimalLen(text) + 1])
    THEN "numbered"
    ELSE IF Len(text) >= 2 /\ IsUpper(text[1])
            /\ \A i \in 2..Len(text) : IsUpper(text[i]) \/ IsSpace(text[i])
    THEN "title"
    ELSE IF Len(text) >= 2 /\ IsUpper(text[1])
            /\ \A i \in 2..Len(text) : IsLower(text[i]) \/ IsSpace(text[i])
    THEN "subtitle"
    ELSE "generic"

enhanceHeading(heading) ==
    [type      |-> detectHeadingType(heading.text),
     cleanText |-> cleanHeadingText(heading.text),
     anchor    |-> generateAnchor(cleanHeadingText(heading.text)),
     numbering |-> extractNumbering(heading.text)] @@ heading

enhanceHeadings(hs) == [i \in 1..Len(hs) |-> enhanceHeading(hs[i])]

(***************************************************************************)
(* StructureAnalyzer.enhanceLists: detectListStyle, analyzeListNesting and *)
(* detectItemLevel.                                                        *)
(***************************************************************************)
IndentUnit == 4

\* text.match(/^\s*/)[0].length, divided by 4, floor, plus 1.
detectItemLevel(text) == (PrefixLen(text, WhiteSpace) \div IndentUnit) + 1

\* new Set(markers): the markers of the items.
uniqueMarkers(list) == {list.items[i].marker : i \in 1..Len(list.items)}

detectListStyle(list) ==
    IF list.type = "unordered"
    THEN IF Cardinality(uniqueMarkers(list)) = 1
         THEN LET marker == CHOOSE m \in uniqueMarkers(list) : TRUE
              IN IF marker \in {<<"U+2022">>, <<"U+00B7">>, <<"U+25AA">>}
                 THEN "bullet"
                 ELSE IF marker \in {<<"-">>, <<"*">>, <<"+">>} THEN "dash"
                 ELSE "mixed"
         ELSE "mixed"
    ELSE LET firstMarker == IF Len(list.items) > 0 THEN list.items[1].marker
                            ELSE <<>>
         IN IF PrefixLen(firstMarker, Digits) > 0 THEN "numeric"
            ELSE IF firstMarker # <<>> /\ firstMarker[1] \in Letters
            THEN "alphabetic"
            ELSE "unknown"

analyzeListNesting(list) ==
    LET levels == {detectItemLevel(list.items[i].text) : i \in 1..Len(list.items)}
        maxLevel == CHOOSE m \in levels : \A l \in levels : l <= m
        minLevel == CHOOSE m \in levels : \A l \in levels : m <= l
    IN [hasNesting |-> maxLevel > minLevel, maxLevel |-> maxLevel,
        minLevel |-> minLevel, levelCount |-> Cardinality(levels)]

cleanItem(item) ==
    [cleanText |-> Trim(item.text), level |-> detectItemLevel(item.text)] @@ item

enhanceList(list) ==
    [style      |-> detectListStyle(list),
     nesting    |-> analyzeListNesting(list),
     cleanItems |-> [i \in 1..Len(list.items) |-> cleanItem(list.items[i])]]
    @@ list

enhanceLists(ls) == [i \in 1..Len(ls) |-> enhanceList(ls[i])]

(***************************************************************************)
(* StructureAnalyzer.findCrossReferences and extractContext.  A place in a *)
(* text counts from 1; match.index of the code counts from 0.              *)
(***************************************************************************)
ContextLength == 50

\* text.slice(start, end).trim() around the match at place i.
extractContext(text, i, contextLength) ==
    LET index == i - 1
        start == IF index - contextLength > 0 THEN index - contextLength ELSE 0
        end   == IF index + contextLength < Len(text) THEN index + contextLength
                 ELSE Len(text)
    IN Trim(SubSeq(text, start + 1, end))

\* The six patterns in the order of the object: the word and its
\* abbreviation, in lower case.
ReferenceTypes == <<"page", "section", "figure", "table", "chapter", "appendix">>

ReferenceWords(type) ==
    CASE type = "page"     -> <<<<"p", "a", "g", "e">>, <<"p", ".">>>>
      [] type = "section"  -> <<<<"s", "e", "c", "t", "i", "o", "n">>,
                                <<"s", "e", "c", ".">>>>
      [] type = "figure"   -> <<<<"f", "i", "g", "u", "r", "e">>, <<"f", "i", "g", ".">>>>
      [] type = "table"    -> <<<<"t", "a", "b", "l", "e">>, <<"t", "b", "l", ".">>>>
      [] type = "chapter"  -> <<<<"c", "h", "a", "p", "t", "e", "r">>, <<"c", "h", ".">>>>
      [] type = "appendix" -> <<<<"a", "p", "p", "e", "n", "d", "i", "x">>,
                                <<"a", "p", "p", ".">>>>

\* The length of what the capture group matches at the start of t: \d+,
\* \d+(?:\.\d+)* for a section, one letter for an appendix.
captureLen(t, type) ==
    IF type = "section" THEN decimalLen(t)
    ELSE IF type = "appendix" THEN (IF t # <<>> /\ t[1] \in Letters THEN 1 ELSE 0)
    ELSE PrefixLen(t, Digits)

\* The match of word, \s* and the capture group at the start of t:
\* [length, reference], length 0 for no match.
matchWord(t, word, type) ==
    LET r == Drop(t, Len(word))
        s == PrefixLen(r, WhiteSpace)
        c == captureLen(Drop(r, s), type)
    IN IF StartsWithIgnoreCase(t, word) /\ c > 0
       THEN [length |-> Len(word) + s + c, reference |-> SubSeq(r, s + 1, s + c)]
       ELSE [length |-> 0, reference |-> <<>>]

\* The match of the pattern at the start of t: the word is tried first, then
\* the abbreviation.
matchAt(t, type) ==
    LET w == ReferenceWords(type)
    IN IF matchWord(t, w[1], type).length > 0 THEN matchWord(t, w[1], type)
       ELSE matchWord(t, w[2], type)

\* while ((match = pattern.exec(text)) !== null): the matches of one pattern
\* from place i on, each search starting where the match before ended.
RECURSIVE matchesFrom(_, _, _, _)
matchesFrom(text, i, type, pageNumber) ==
    LET found == {j \in i..Len(text) : matchAt(Drop(text, j - 1), type).length > 0}
    IN IF found = {} THEN <<>>
       ELSE LET at == CHOOSE j \in found : \A k \in found : j <= k
                m == matchAt(Drop(text, at - 1), type)
            IN <<[type |-> type, reference |-> m.reference,
                  fullMatch |-> SubSeq(text, at, at + m.length - 1),
                  pageNumber |-> pageNumber,
                  context |-> extractContext(text, at, ContextLength)]>>
               \o matchesFrom(text, at + m.length, type, pageNumber)

\* The loop over the patterns for one page.
RECURSIVE referencesOfPage(_, _)
referencesOfPage(page, types) ==
    IF types = <<>> THEN <<>>
    ELSE matchesFrom(page.rawText, 1, types[1], page.pageNumber)
         \o referencesOfPage(page, Tail(types))

RECURSIVE findCrossReferences(_)
findCrossReferences(ps) ==
    IF ps = <<>> THEN <<>>
    ELSE referencesOfPage(ps[1], ReferenceTypes) \o findCrossReferences(Tail(ps))

(***************************************************************************)
(* PDFProcessor.extractAllPages and PDFProcessor.analyzeStructure.         *)
(***************************************************************************)
CancelledMessage == <<"Processing cancelled">>

\* What processTextItems returns for the sorted items.
processedContent(sorted) ==
    [lines |-> processTextItemsLines(sorted),
     paragraphs |-> groupLinesIntoParagraphs(processTextItemsLines(sorted))]

\* The page object pushed for a page that was read.
goodPage(n, sorted) ==
    [pageNumber |-> n, textItems |-> sorted, content |-> processedContent(sorted),
     error |-> <<>>]

\* A variant of onPageError that throws the error again.
onPageError_Rethrow(ps, n, message) == [pages |-> ps, thrown |-> <<message>>]

\* The catch block of the page loop: the pages after it, and what it throws.
onPageError(ps, n, message) ==
    [pages |-> Append(ps, [pageNumber |-> n, textItems |-> <<>>,
                           content |-> [lines |-> <<>>, paragraphs |-> <<>>],
                           error |-> <<message>>]),
     thrown |-> <<>>]

withPage(s, n) == Map(s, LAMBDA e : [pageNumber |-> n] @@ e)

\* if (!page.content || page.error) continue; every page object has a content.
skipsPage(page) == page.error # <<>>

\* The loop of analyzeStructure over the pages.
RECURSIVE analyzePages(_, _)
analyzePages(ps, acc) ==
    IF ps = <<>> THEN acc
    ELSE IF skipsPage(ps[1]) THEN analyzePages(Tail(ps), acc)
    ELSE LET page == ps[1] IN
         analyzePages(Tail(ps),
           [headings |-> acc.headings
                \o withPage(identifyHeadings(page.content.paragraphs), page.pageNumber),
            lists |-> acc.lists
                \o withPage(identifyLists(page.content.paragraphs), page.pageNumber),
            tables |-> acc.tables
                \o withPage(identifyTables(page.content.lines), page.pageNumber)])

EmptyStructure == [headings |-> <<>>, lists |-> <<>>, tables |-> <<>>]

analyzeStructure(ps) == analyzePages(ps, EmptyStructure)

EmptyAnalysis ==
    [sections |-> <<>>, enhancedHeadings |-> <<>>, enhancedLists |-> <<>>,
     enhancedTables |-> <<>>, crossReferences |-> <<>>]

AnalysisIdle == analysis = EmptyAnalysis

PdfIdle ==
    /\ doc = <<>>
    /\ pageNum = 0
    /\ abortController = <<>>
    /\ aborted = FALSE
    /\ result = <<>>
    /\ thrown = <<>>

(***************************************************************************)
(* StructureAnalyzer.enhanceTables: detectTableType, analyzeTableStructure, *)
(* cleanTableData and detectTableHeaders.                                  *)
(***************************************************************************)
\* The words of detectTableHeaders' pattern, in lower case.
HeaderWords ==
    {<<"n", "a", "m", "e">>, <<"t", "i", "t", "l", "e">>, <<"t", "y", "p", "e">>,
     <<"d", "a", "t", "e">>, <<"v", "a", "l", "u", "e">>,
     <<"a", "m", "o", "u", "n", "t">>,
     <<"d", "e", "s", "c", "r", "i", "p", "t", "i", "o", "n">>,
     <<"i", "d">>, <<"n", "u", "m", "b", "e", "r">>}

\* The words of detectTableType's pattern, in lower case.
DataWords ==
    {<<"n", "a", "m", "e">>, <<"t", "i", "t", "l", "e">>,
     <<"d", "e", "s", "c", "r", "i", "p", "t", "i", "o", "n">>,
     <<"v", "a", "l", "u", "e">>, <<"a", "m", "o", "u", "n", "t">>,
     <<"d", "a", "t", "e">>, <<"t", "i", "m", "e">>}

\* /\b(word|...)\b/i.test(t): a word of the set stands in t, whatever its
\* case, with no word character right before or right after it.
hasWord(t, words) ==
    \E w \in words : \E i \in 1..(Len(t) - Len(w) + 1) :
        /\ StartsWithIgnoreCase(Drop(t, i - 1), w)
        /\ i = 1 \/ t[i - 1] \notin WordChars
        /\ i + Len(w) > Len(t) \/ t[i + Len(w)] \notin WordChars

\* segment === segment.toUpperCase()
isUpperCase(t) == \A i \in 1..Len(t) : ~IsLower(t[i])

detectTableHeaders(table) ==
    IF Len(table.rows) = 0 THEN <<>>
    ELSE LET segments == table.rows[1].segments
             hasHeaderWords == \E i \in 1..Len(segments) :
                                  hasWord(segments[i], HeaderWords)
             isAllCaps == \A i \in 1..Len(segments) :
                             isUpperCase(segments[i]) /\ Len(segments[i]) > 1
         IN IF hasHeaderWords \/ isAllCaps THEN Map(segments, Trim) ELSE <<>>

detectTableType(table) ==
    IF hasWord(table.rows[1].text, DataWords) THEN "data"
    ELSE IF Len(table.rows) <= 3 /\ table.columnCount <= 3 THEN "simple"
    ELSE IF table.columnCount > 5 THEN "complex"
    ELSE "generic"

analyzeTableStructure(table) ==
    [rowCount |-> Len(table.rows),
     columnCount |-> table.columnCount,
     hasHeaders |-> Len(detectTableHeaders(table)) > 0,
     isEmpty |-> \A i \in 1..Len(table.rows) : Trim(table.rows[i].text) = <<>>,
     isRegular |-> \A i \in 1..Len(table.rows) :
                      Len(table.rows[i].segments) = table.columnCount]

cleanTableData(table) ==
    Map(table.rows,
        LAMBDA row : [cleanSegments |-> Map(row.segments, Trim),
                      cleanText |-> Trim(row.text)] @@ row)

enhanceTable(table) ==
    [type |-> detectTableType(table),
     structure |-> analyzeTableStructure(table),
     cleanData |-> cleanTableData(table),
     headers |-> detectTableHeaders(table)] @@ table

enhanceTables(tables) == Map(tables, enhanceTable)

(***************************************************************************)
(* MarkdownGenerator: the options, the Turndown service, updateOptions and *)
(* generateMarkdown.  The Turndown service is the set of the names of the  *)
(* rules that were added to it.                                            *)
(***************************************************************************)
\* The options a generator is constructed with: the flavor given, the
\* defaults of the constructor for the others.
constructedOptions(flavor) ==
    [flavor |-> flavor, preserveTables |-> TRUE, preserveLinks |-> TRUE,
     addMetadata |-> TRUE, addToc |-> FALSE, maxHeadingLevel |-> 6]

addFlavorSpecificRules(flavor) ==
    (IF flavor = "github" THEN {"strikethrough", "taskList"} ELSE {})
    \cup (IF flavor = "pandoc"
          THEN {"definition", "definitionTerm", "definitionDescription"}
          ELSE {})

\* A new service with the rules of this.options.flavor.
initializeTurndown(opts) == [rules |-> addFlavorSpecificRules(opts.flavor)]

\* { ...this.options, ...newOptions }
mergeOptions(opts, newOptions) == newOptions @@ opts

\* newOptions.flavor && newOptions.flavor !== this.options.flavor, where
\* opts is this.options at the time the condition is evaluated.
flavorChanged(newOptions, opts) ==
    "flavor" \in DOMAIN newOptions /\ newOptions.flavor # opts.flavor

\* updateOptions: this.options is assigned first, the condition is evaluated
\* on the options after the assignment.
updateOptions(opts, service, newOptions) ==
    LET merged == mergeOptions(opts, newOptions)
    IN [options |-> merged,
        turndownService |-> IF flavorChanged(newOptions, merged)
                            THEN initializeTurndown(merged)
                            ELSE service]

RECURSIVE Concat(_)
Concat(ts) == IF ts = <<>> THEN <<>> ELSE ts[1] \o Concat(Tail(ts))

\* Array.prototype.join(sep)
RECURSIVE JoinWith(_, _)
JoinWith(ts, sep) ==
    IF ts = <<>> THEN <<>>
    ELSE IF Len(ts) = 1 THEN ts[1]
    ELSE ts[1] \o sep \o JoinWith(Tail(ts), sep)

\* What the replacements of cleanText after the first make of one character;
\* a non-breaking space is among \s and is gone after the first.
typographic(c) ==
    CASE c \in {"U+2018", "U+2019"} -> <<"'">>
      [] c \in {"U+201C", "U+201D"} -> <<"\"">>
      [] c = "U+2013" -> <<"-">>
      [] c = "U+2014" -> <<"-", "-">>
      [] c = "U+2026" -> <<".", ".", ".">>
      [] OTHER -> <<c>>

\* MarkdownGenerator.cleanText
cleanText(text) ==
    IF text = <<>> THEN <<>>
    ELSE Trim(Concat(Map(normalizeSpaces(text), typographic)))

\* The decimal digits of n >= 0.
RECURSIVE Decimal(_)
Decimal(n) ==
    LET d == <<"0", "1", "2", "3", "4", "5", "6", "7", "8", "9">>[(n % 10) + 1]
    IN IF n < 10 THEN <<d>> ELSE Decimal(n \div 10) \o <<d>>

\* '#'.repeat(level)
hashes(level) == [i \in 1..level |-> "#"]

generateHeading(heading, opts) ==
    LET level == IF heading.level < opts.maxHeadingLevel THEN heading.level
                 ELSE opts.maxHeadingLevel
        text == IF "cleanText" \in DOMAIN heading /\ heading.cleanText # <<>>
                THEN heading.cleanText ELSE heading.text
    IN hashes(level) \o <<" ">> \o cleanText(text) \o <<"\n", "\n">>

\* The length of the match of /https?:\/\/[^\s]+/ at the start of t, 0 for none.
urlLen(t) ==
    LET scheme == IF StartsWith(t, <<"h", "t", "t", "p", "s", ":", "/", "/">>) THEN 8
                  ELSE IF StartsWith(t, <<"h", "t", "t", "p", ":", "/", "/">>) THEN 7
                  ELSE 0
        rest == IF scheme = 0 THEN 0
                ELSE PrefixLen(Drop(t, scheme), {t[i] : i \in 1..Len(t)} \ WhiteSpace)
    IN IF rest = 0 THEN 0 ELSE scheme + rest

\* text.replace(urlPattern, '[$1]($1)')
RECURSIVE processLinks(_)
processLinks(t) ==
    IF t = <<>> THEN <<>>
    ELSE LET n == urlLen(t)
             skip == 1 + PrefixLen(Tail(t), {t[i] : i \in 1..Len(t)} \ {"h"})
         IN
         IF n = 0 THEN SubSeq(t, 1, skip) \o processLinks(Drop(t, skip))
         ELSE <<"[">> \o SubSeq(t, 1, n) \o <<"]", "(">> \o SubSeq(t, 1, n)
              \o <<")">> \o processLinks(Drop(t, n))

generateParagraph(paragraph, opts) ==
    IF Trim(paragraph.text) = <<>> THEN <<>>
    ELSE LET clean == cleanText(paragraph.text)
             bold == IF paragraph.bold THEN <<"*", "*">> \o clean \o <<"*", "*">>
                     ELSE clean
             italic == IF paragraph.italic THEN <<"*">> \o bold \o <<"*">> ELSE bold
             linked == IF opts.preserveLinks THEN processLinks(italic) ELSE italic
         IN linked \o <<"\n", "\n">>

\* item.text || item.cleanText || ''
itemText(item) ==
    IF item.text # <<>> THEN item.text
    ELSE IF "cleanText" \in DOMAIN item THEN item.cleanText
    ELSE <<>>

generateList(list, opts) ==
    IF Len(list.items) = 0 THEN <<>>
    ELSE Concat([i \in 1..Len(list.items) |->
                   (IF list.type = "ordered" THEN Decimal(i) \o <<".", " ">>
                    ELSE <<"-", " ">>)
                   \o cleanText(itemText(list.items[i])) \o <<"\n">>])
         \o <<"\n">>

\* `| ${cells.join(' | ')} |\n`
tableRow(cells) ==
    <<"|", " ">> \o JoinWith(cells, <<" ", "|", " ">>) \o <<" ", "|", "\n">>

\* row.cleanSegments || row.segments
rowSegments(row) ==
    IF "cleanSegments" \in DOMAIN row THEN row.cleanSegments ELSE row.segments

\* table.headers && table.headers.length > 0
hasHeaders(table) == "headers" \in DOMAIN table /\ Len(table.headers) > 0

generateTable(table, opts) ==
    IF Len(table.rows) = 0 THEN <<>>
    ELSE LET rows == IF "cleanData" \in DOMAIN table THEN table.cleanData
                     ELSE table.rows
             headerRows ==
                 IF hasHeaders(table)
                 THEN tableRow(Map(table.headers, cleanText))
                      \o tableRow(Map(table.headers, LAMBDA h : <<"-", "-", "-">>))
                 ELSE <<>>
             startRow == IF hasHeaders(table) THEN 1 ELSE 0
         IN headerRows
            \o Concat([i \in 1..(Len(rows) - startRow) |->
                         tableRow(Map(rowSegments(rows[i + startRow]), cleanText))])
            \o <<"\n">>

\* The switch of generateMainContent for one element of the reading order.
generateElement(e, opts) ==
    CASE e.type = "heading" -> generateHeading(e.content, opts)
      [] e.type = "paragraph" -> generateParagraph(e.content, opts)
      [] e.type = "list" -> generateList(e.content, opts)
      [] e.type = "table" -> IF opts.preserveTables
                             THEN generateTable(e.content, opts) ELSE <<>>

\* content.structure.readingOrder is the array of the analysis, so that
\* createDefaultReadingOrder is not called.
generateMainContent(order, opts) ==
    Concat([i \in 1..Len(order) |-> generateElement(order[i], opts)])

generateTableOfContents(enhancedHeadings) ==
    IF Len(enhancedHeadings) = 0 THEN <<>>
    ELSE <<"#", "#", " ", "T", "a", "b", "l", "e", " ", "o", "f", " ",
           "C", "o", "n", "t", "e", "n", "t", "s", "\n", "\n">>
         \o Concat([i \in 1..Len(enhancedHeadings) |->
              LET heading == enhancedHeadings[i]
                  text == IF heading.cleanText # <<>> THEN heading.cleanText
                          ELSE heading.text
                  anchor == IF heading.anchor # <<>> THEN heading.anchor
                            ELSE generateAnchor(text)
                  depth == IF heading.level > 1 THEN heading.level - 1 ELSE 0
              IN [k \in 1..(2 * depth) |-> " "] \o <<"-", " ", "[">> \o text
                 \o <<"]", "(", "#">> \o anchor \o <<")", "\n">>])
         \o <<"\n">>

\* The characters of t that [^\n] matches.
NotNewline(t) == {t[i] : i \in 1..Len(t)} \ {"\n"}

\* The first character of t and the characters after it up to the next c:
\* what a search that finds no match at the start of t steps over, when
\* every match starts with c.
upToNext(t, c) == 1 + PrefixLen(Tail(t), {t[i] : i \in 1..Len(t)} \ {c})

\* processed.replace(/\n{4,}/g, '\n\n\n')
RECURSIVE collapseNewlines(_)
collapseNewlines(t) ==
    IF t = <<>> THEN <<>>
    ELSE LET n == PrefixLen(t, {"\n"}) IN
         IF n >= 4 THEN <<"\n", "\n", "\n">> \o collapseNewlines(Drop(t, n))
         ELSE IF n >= 1 THEN SubSeq(t, 1, n) \o collapseNewlines(Drop(t, n))
         ELSE SubSeq(t, 1, upToNext(t, "\n"))
              \o collapseNewlines(Drop(t, upToNext(t, "\n")))

\* The length of the match of /\n(#{1,6}\s[^\n]+)\n(?!\n)/ at the start of t,
\* 0 for none: h hashes, the whitespace at place p, the run of [^\n]+ and
\* the closing newline at place e.
headingMatchLen(t) ==
    IF t = <<>> \/ t[1] # "\n" THEN 0
    ELSE LET h == PrefixLen(Tail(t), {"#"})
             p == 2 + h
             run == IF p < Len(t) THEN PrefixLen(Drop(t, p), NotNewline(t)) ELSE 0
             e == p + run + 1
         IN IF /\ h >= 1 /\ h <= 6
               /\ p <= Len(t) /\ IsSpace(t[p])
               /\ run >= 1
               /\ e <= Len(t) /\ t[e] = "\n"
               /\ (e = Len(t) \/ t[e + 1] # "\n")
            THEN e ELSE 0

\* processed.replace(/\n(#{1,6}\s[^\n]+)\n(?!\n)/g, '\n$1\n\n')
RECURSIVE spaceHeadings(_)
spaceHeadings(t) ==
    IF t = <<>> THEN <<>>
    ELSE LET n == headingMatchLen(t) IN
         IF n = 0 THEN SubSeq(t, 1, upToNext(t, "\n"))
                       \o spaceHeadings(Drop(t, upToNext(t, "\n")))
         ELSE SubSeq(t, 1, n) \o <<"\n">> \o spaceHeadings(Drop(t, n))

\* The length of the match of ([-*+]|\d+\.) at place s of t, 0 for none.
listMarkerLen(t, s) ==
    IF s > Len(t) THEN 0
    ELSE IF t[s] \in {"-", "*", "+"} THEN 1
    ELSE LET d == PrefixLen(Drop(t, s - 1), Digits)
         IN IF d >= 1 /\ s + d <= Len(t) /\ t[s + d] = "." THEN d + 1 ELSE 0

\* The place where the match of ([-*+]|\d+\.)\s[^\n]+ that starts at place s
\* ends, 0 for no match.
itemEnd(t, s) ==
    LET m == listMarkerLen(t, s)
        p == s + m
        run == IF p < Len(t) THEN PrefixLen(Drop(t, p), NotNewline(t)) ELSE 0
    IN IF m >= 1 /\ p <= Len(t) /\ IsSpace(t[p]) /\ run >= 1 THEN p + run ELSE 0

\* The places where a sequence of one or more item lines that starts at
\* place s can end.
RECURSIVE itemEnds(_, _)
itemEnds(t, s) ==
    LET e == itemEnd(t, s)
    IN IF e = 0 THEN {}
       ELSE {e} \cup (IF e < Len(t) /\ t[e + 1] = "\n" THEN itemEnds(t, e + 2)
                      ELSE {})

\* The length of the match of the list pattern at the start of t, 0 for
\* none: the longest sequence of item lines whose newline is not followed by
\* another newline.
listMatchLen(t) ==
    IF t = <<>> \/ t[1] # "\n" THEN 0
    ELSE LET ends == {e \in itemEnds(t, 2) :
                        /\ e < Len(t) /\ t[e + 1] = "\n"
                        /\ (e + 1 = Len(t) \/ t[e + 2] # "\n")}
         IN IF ends = {} THEN 0
            ELSE (CHOOSE e \in ends : \A f \in ends : f <= e) + 1

\* processed.replace(/\n([-*+]|\d+\.)\s[^\n]+(?:\n([-*+]|\d+\.)\s[^\n]+)*\n(?!\n)/g,
\*                   (match) => match + '\n')
RECURSIVE spaceLists(_)
spaceLists(t) ==
    IF t = <<>> THEN <<>>
    ELSE LET n == listMatchLen(t) IN
         IF n = 0 THEN SubSeq(t, 1, upToNext(t, "\n"))
                       \o spaceLists(Drop(t, upToNext(t, "\n")))
         ELSE SubSeq(t, 1, n) \o <<"\n">> \o spaceLists(Drop(t, n))

\* The place where the match of (\|[^\n]+\|\n)+ that starts at place s ends,
\* s - 1 for no match: a unit goes from a bar to the newline of its line,
\* and the line ends with a bar.
RECURSIVE tableRunEnd(_, _)
tableRunEnd(t, s) ==
    IF s > Len(t) \/ t[s] # "|" THEN s - 1
    ELSE LET run == IF s < Len(t) THEN PrefixLen(Drop(t, s), NotNewline(t)) ELSE 0
             e == s + run + 1
         IN IF run >= 2 /\ e <= Len(t) /\ t[e - 1] = "|"
            THEN tableRunEnd(t, e + 1)
            ELSE s - 1

\* markdown.replace(/(\|[^\n]+\|\n)+/g, (match) => '\n' + match + '\n')
RECURSIVE cleanTableFormatting(_)
cleanTableFormatting(t) ==
    IF t = <<>> THEN <<>>
    ELSE LET n == tableRunEnd(t, 1) IN
         IF n = 0 THEN SubSeq(t, 1, upToNext(t, "|"))
                       \o cleanTableFormatting(Drop(t, upToNext(t, "|")))
         ELSE <<"\n">> \o SubSeq(t, 1, n) \o <<"\n">>
              \o cleanTableFormatting(Drop(t, n))

postProcessMarkdown(md, opts) ==
    LET spaced == spaceLists(spaceHeadings(collapseNewlines(md)))
        tables == IF opts.preserveTables THEN cleanTableFormatting(spaced)
                  ELSE spaced
    IN Trim(tables) \o <<"\n">>

\* generateMarkdown with the options merged; mergedOptions.addMetadata is
\* off in every call of the model, so that generateMetadata is not called.
generateMarkdown(struct, opts) ==
    postProcessMarkdown(
        (IF opts.addToc THEN generateTableOfContents(struct.enhancedHeadings)
         ELSE <<>>)
        \o generateMainContent(struct.readingOrder, opts), opts)

GeneratorIdle ==
    /\ options = constructedOptions("github")
    /\ turndownService = initializeTurndown(constructedOptions("github"))
    /\ markdown = <<>>

(***************************************************************************)
(* PDFToMarkdownApp: the state after construction.                         *)
(***************************************************************************)
\* loadSettings: the default settings that the model reads.
defaultSettings ==
    [markdownFlavor |-> "github", preserveTables |-> TRUE, preserveLinks |-> TRUE,
     addMetadata |-> TRUE, addToc |-> FALSE, maxConcurrent |-> 2]

AppIdle ==
    /\ queueItems = <<>>
    /\ fileQueue = <<>>
    /\ conversionResults = <<>>
    /\ isProcessing = FALSE
    /\ isPaused = FALSE
    /\ runs = <<>>
    /\ settings = defaultSettings

(***************************************************************************)
(* The Line Assembler on any token list of one page.                       *)
(***************************************************************************)
A == <<"a">>

Token(x, y, text, fontSize, bold) ==
    [x |-> x, y |-> y, text |-> text, fontSize |-> fontSize, bold |-> bold,
     italic |-> FALSE]

TokenPool ==
    {Token(x, y, A, 10, FALSE) : x \in {0, 1}, y \in {0, 4, 8}}
    \cup {Token(0, 20, <<" ">>, 12, TRUE)}

InitLines ==
    /\ pc = "start"
    /\ textItems \in SeqsUpTo(TokenPool, MaxTokens)
    /\ lines = <<>>
    /\ paragraphs = <<>>
    /\ regrouped = <<>>
    /\ OutlineIdle
    /\ OrderIdle
    /\ PdfIdle
    /\ AnalysisIdle
    /\ GeneratorIdle
    /\ AppIdle

ProcessTextItems ==
    /\ pc = "start"
    /\ \E sorted \in SortOutcomes(textItems, compareItems) :
         /\ textItems' = sorted
         /\ lines' = processTextItemsLines(sorted)
         /\ paragraphs' = groupLinesIntoParagraphs(processTextItemsLines(sorted))
    /\ pc' = "done"
    /\ UNCHANGED <<regrouped, outlineVars, orderVars, pdfVars, analysisVars,
                   generatorVars, appVars>>

NextLines == ProcessTextItems

SpecLines == InitLines /\ [][NextLines]_vars

\* C1: every member token of a produced Line lies less than 5 units in y from
\* the y recorded on that Line.
C1_TokensWithinTolerance ==
    pc = "done" =>
        \A i \in 1..Len(lines) : \A k \in 1..Len(lines[i].items) :
            Abs(lines[i].items[k].y - lines[i].y) < SameLineThreshold

\* C19: processTextItems has no side effects: the caller's token list holds
\* the same tokens in the same order after the call as before it.
C19_CallerListUnchanged == [][textItems' = textItems]_vars

(***************************************************************************)
(* The Paragraph Segmenter on any Line sequence, and again on the lines of *)
(* one of the paragraphs it produced.                                      *)
(***************************************************************************)
Line(y, text, fontSize) ==
    [y |-> y, items |-> <<>>, text |-> text, fontSize |-> fontSize,
     bold |-> FALSE, italic |-> FALSE]

LinePool ==
    {Line(y, A, f) : y \in {100, 90, 75}, f \in {10, 12, 13}}
    \cup {Line(y, <<>>, 10) : y \in {100, 90, 75}}

InitPara ==
    /\ pc = "start"
    /\ textItems = <<>>
    /\ lines \in SeqsUpTo(LinePool, MaxLines)
    /\ paragraphs = <<>>
    /\ regrouped = <<>>
    /\ OutlineIdle
    /\ OrderIdle
    /\ PdfIdle
    /\ AnalysisIdle
    /\ GeneratorIdle
    /\ AppIdle

GroupLinesIntoParagraphs ==
    /\ pc = "start"
    /\ paragraphs' = groupLinesIntoParagraphs(lines)
    /\ pc' = "grouped"
    /\ UNCHANGED <<textItems, lines, regrouped, outlineVars, orderVars, pdfVars, analysisVars,
                   generatorVars, appVars>>

\* The segmenter run on the lines of the k-th paragraph.
Regroup ==
    /\ pc = "grouped"
    /\ \E k \in 1..Len(paragraphs) :
         /\ regrouped' = groupLinesIntoParagraphs(paragraphs[k].lines)
         /\ pc' = <<"regrouped", k>>
    /\ UNCHANGED <<textItems, lines, paragraphs, outlineVars, orderVars, pdfVars, analysisVars,
                   generatorVars, appVars>>

NextPara == GroupLinesIntoParagraphs \/ Regroup

SpecPara == InitPara /\ [][NextPara]_vars

\* C5: the segmenter run on the lines of a paragraph it produced returns
\* exactly one paragraph, made of the same lines in the same order.
C5_SegmenterIdempotent ==
    (pc # "start" /\ pc # "grouped") =>
        /\ Len(regrouped) = 1
        /\ regrouped[1].lines = paragraphs[pc[2]].lines
        /\ regrouped[1] = paragraphs[pc[2]]

C5_Witness ==
    /\ pc # "start" /\ pc # "grouped"
    /\ Len(paragraphs) >= 2
    /\ Len(paragraphs[pc[2]].lines) >= 2

\* The positions, in the input, of the lines with non-empty text.
RECURSIVE NonEmptyPositions(_, _)
NonEmptyPositions(ls, i) ==
    IF i > Len(ls) THEN <<>>
    ELSE (IF Trim(ls[i].text) # <<>> THEN <<i>> ELSE <<>>)
         \o NonEmptyPositions(ls, i + 1)

RECURSIVE FlattenLines(_)
FlattenLines(ps) ==
    IF ps = <<>> THEN <<>> ELSE ps[1].lines \o FlattenLines(Tail(ps))

\* The number of lines in the paragraphs before the k-th.
LinesBefore(ps, k) == Len(FlattenLines(SubSeq(ps, 1, k - 1)))

\* C6: no paragraph spans a boundary: no line of a paragraph is empty, every
\* line after the first lies at most 20 units in y from the line before it in
\* the input, and every line's fontSize is within 2 of the first line's.
C6_NoParagraphSpansBoundary ==
    pc = "grouped" =>
        LET pos == NonEmptyPositions(lines, 1) IN
        /\ FlattenLines(paragraphs) = [j \in 1..Len(pos) |-> lines[pos[j]]]
        /\ \A k \in 1..Len(paragraphs) :
             LET p == paragraphs[k] IN
             /\ Len(p.lines) > 0
             /\ \A j \in 1..Len(p.lines) :
                  /\ Trim(p.lines[j].text) # <<>>
                  /\ Abs(p.lines[j].fontSize - p.lines[1].fontSize) <= FontSizeChange
                  /\ j > 1 =>
                       LET i == pos[LinesBefore(paragraphs, k) + j] IN
                       /\ i > 1
                       /\ Abs(lines[i - 1].y - lines[i].y) <= LargeGap

C6_Witness ==
    /\ pc = "grouped"
    /\ Len(paragraphs) >= 2
    /\ \E k \in 1..Len(paragraphs) : Len(paragraphs[k].lines) >= 2
    /\ \E i \in 2..Len(lines) : Abs(lines[i - 1].y - lines[i].y) > LargeGap

(***************************************************************************)
(* The Outline Builder on any list of headings.                            *)
(***************************************************************************)
Heading(level, pageNumber, y) ==
    [text |-> A, level |-> level, pageNumber |-> pageNumber, y |-> y]

HeadingPool ==
    {Heading(l, 1, y) : l \in 1..3, y \in {700, 600}}
    \cup {Heading(l, 2, 700) : l \in 1..3}

InitOutline ==
    /\ pc = "start"
    /\ textItems = <<>>
    /\ lines = <<>>
    /\ paragraphs = <<>>
    /\ regrouped = <<>>
    /\ headings \in SeqsUpTo(HeadingPool, MaxHeadings)
    /\ outlineNodes = <<>>
    /\ outline = <<>>
    /\ OrderIdle
    /\ PdfIdle
    /\ AnalysisIdle
    /\ GeneratorIdle
    /\ AppIdle

GenerateOutline ==
    /\ pc = "start"
    /\ LET sorted == StableSort(headings, compareHeadings)
           built  == generateOutline(sorted)
       IN /\ headings' = sorted
          /\ outlineNodes' = built.nodes
          /\ outline' = built.outline
    /\ pc' = "done"
    /\ UNCHANGED <<pageVars, orderVars, pdfVars, analysisVars,
                   generatorVars, appVars>>

NextOutline == GenerateOutline

SpecOutline == InitOutline /\ [][NextOutline]_vars

\* The items in the children list of item n.
Children(n) == {outlineNodes[n].children[k] : k \in 1..Len(outlineNodes[n].children)}

\* The items below item n: its children, their children, and so on.
RECURSIVE Below(_)
Below(n) == Children(n) \cup UNION {Below(c) : c \in Children(n)}

\* C3: every child of an outline node has a level strictly greater than the
\* node's level.
C3_ChildrenDeeper ==
    pc = "done" =>
        \A n \in 1..Len(outlineNodes) : \A c \in Children(n) :
            outlineNodes[c].level > outlineNodes[n].level

C3_Witness ==
    /\ pc = "done"
    /\ \E n \in 1..Len(outlineNodes) : \E c \in Children(n) : Children(c) # {}
    /\ Len(outline) >= 2

\* How many times item i is listed: among the roots and in children lists.
Listed(i) ==
    Cardinality({k \in 1..Len(outline) : outline[k] = i})
    + Cardinality({<<n, k>> \in (1..Len(outlineNodes)) \X (1..Len(outlineNodes)) :
                     k <= Len(outlineNodes[n].children)
                     /\ outlineNodes[n].children[k] = i})

\* The run that follows heading n in the sorted headings and is deeper than it.
RunAfter(n) ==
    {j \in n + 1..Len(headings) :
        \A k \in n + 1..j : headings[k].level > headings[n].level}

\* C4: with H the sorted headings, every heading is in the outline exactly
\* once, and the subtree of each node holds exactly the maximal run of deeper
\* headings that follows it in H.
C4_SubtreeIsContiguousRun ==
    pc = "done" =>
        /\ Len(outlineNodes) = Len(headings)
        /\ \A i, j \in 1..Len(headings) :
             i < j => compareHeadings(headings[i], headings[j]) <= 0
        /\ \A n \in 1..Len(outlineNodes) :
             /\ outlineNodes[n].text = headings[n].text
             /\ outlineNodes[n].level = headings[n].level
             /\ outlineNodes[n].pageNumber = headings[n].pageNumber
             /\ Listed(n) = 1
             /\ Below(n) = RunAfter(n)
        /\ \A n \in 1..Len(outlineNodes) :
             n \in {outline[k] : k \in 1..Len(outline)}
                   \cup UNION {Below(outline[k]) : k \in 1..Len(outline)}

C4_Witness ==
    /\ pc = "done"
    /\ \E n \in 1..Len(outlineNodes) :
         /\ Cardinality(Below(n)) >= 2
         /\ \E j \in n + 1..Len(headings) : j \notin Below(n)

(***************************************************************************)
(* The Reading-Order Composer on any content of two pages.                 *)
(***************************************************************************)
PageNumbers == {1, 2}

Item(kind, pageNumber, y) == [kind |-> kind, pageNumber |-> pageNumber, y |-> y]

ItemPool(ys) == {Item(k, n, y) : k \in {"heading", "paragraph", "list", "table"},
                                 n \in PageNumbers, y \in ys}

OfKind(items, kind) == SelectSeq(items, LAMBDA e : e.kind = kind)

\* The paragraph object of a one-line paragraph at y.
ParagraphAt(y) == makeParagraph(<<Line(y, A, 10)>>)

\* content.pages and content.structure holding the items.
PagesOf(items) ==
    [n \in PageNumbers |->
       [pageNumber |-> n,
        content |-> [lines |-> <<>>,
                     paragraphs |-> Map(OnPage(OfKind(items, "paragraph"), n),
                                        LAMBDA e : ParagraphAt(e.y))]]]

StructureOf(items) ==
    [headings |-> Map(OfKind(items, "heading"),
                      LAMBDA e : Heading(1, e.pageNumber, e.y)),
     lists    |-> Map(OfKind(items, "list"),
                      LAMBDA e : [type |-> "unordered", items |-> <<>>, y |-> e.y,
                                  pageNumber |-> e.pageNumber]),
     tables   |-> Map(OfKind(items, "table"),
                      LAMBDA e : [rows |-> <<>>, columnCount |-> 3, y |-> e.y,
                                  pageNumber |-> e.pageNumber])]

InitContent(ys) ==
    /\ pc = "start"
    /\ textItems = <<>>
    /\ lines = <<>>
    /\ paragraphs = <<>>
    /\ regrouped = <<>>
    /\ OutlineIdle
    /\ \E items \in SeqsUpTo(ItemPool(ys), MaxElements) :
         /\ pages = PagesOf(items)
         /\ structure = StructureOf(items)
    /\ readingOrder = <<>>
    /\ otherOrder = <<>>
    /\ PdfIdle
    /\ AnalysisIdle
    /\ GeneratorIdle
    /\ AppIdle

InitOrder == InitContent({0, 700, 10000})

DetermineReadingOrder ==
    /\ pc = "start"
    /\ readingOrder' = determineReadingOrder(pages, structure)
    /\ otherOrder' = determineReadingOrder(pages, structure)
    /\ pc' = "done"
    /\ UNCHANGED <<pageVars, outlineVars, pages, structure, pdfVars, analysisVars,
                   generatorVars, appVars>>

NextOrder == DetermineReadingOrder

SpecOrder == InitOrder /\ [][NextOrder]_vars

\* C2 as stated: an element of an earlier page has a smaller order than an
\* element of a later page and comes before it, whatever the two y values.
C2_EarlierPageFirst ==
    pc = "done" =>
        \A i, j \in 1..Len(readingOrder) :
            readingOrder[i].pageNumber < readingOrder[j].pageNumber =>
                readingOrder[i].order < readingOrder[j].order /\ i < j

\* C2 as amended: for a on page p1 and b on page p2 > p1, a.order < b.order
\* (and a comes before b) exactly when b.y - a.y < 10000 * (p2 - p1); this is
\* so whenever both y values lie in 0 <= y < 10000.
InRange(y) == 0 <= y /\ y < PageStride

C2_EarlierPageFirstInRange ==
    pc = "done" =>
        \A i, j \in 1..Len(readingOrder) :
            LET a == readingOrder[i]
                b == readingOrder[j]
            IN a.pageNumber < b.pageNumber =>
                 /\ (a.order < b.order
                       <=> b.y - a.y < PageStride * (b.pageNumber - a.pageNumber))
                 /\ a.order < b.order => i < j
                 /\ (InRange(a.y) /\ InRange(b.y)) => a.order < b.order

C2_Witness ==
    /\ pc = "done"
    /\ \E i, j \in 1..Len(readingOrder) :
         /\ readingOrder[i].pageNumber < readingOrder[j].pageNumber
         /\ readingOrder[i].y < readingOrder[j].y
         /\ InRange(readingOrder[i].y) /\ InRange(readingOrder[j].y)
         /\ i < j

(***************************************************************************)
(* The same content collected in another order of the four kinds.          *)
(***************************************************************************)
KindOrders ==
    {[i \in 1..4 |-> CollectionOrder[p[i]]] : p \in Perms(4)}

InitCollect == InitContent({600, 700})

DetermineReadingOrderTwice ==
    /\ pc = "start"
    /\ readingOrder' = determineReadingOrder(pages, structure)
    /\ \E kinds \in KindOrders :
         otherOrder' = sortByOrder(collectElements(pages, structure, kinds))
    /\ pc' = "done"
    /\ UNCHANGED <<pageVars, outlineVars, pages, structure, pdfVars, analysisVars,
                   generatorVars, appVars>>

NextCollect == DetermineReadingOrderTwice

SpecCollect == InitCollect /\ [][NextCollect]_vars

\* C9: the reading order is the same whatever the order in which the
\* headings, paragraphs, lists and tables were collected.
C9_OrderIndependentOfCollection ==
    pc = "done" => otherOrder = readingOrder

(***************************************************************************)
(* PDFProcessor.processPDF on a document of up to MaxPages pages, with     *)
(* PDFProcessor.cancelProcessing called at any time.                       *)
(***************************************************************************)
Introduction ==
    <<"1", ".", " ", "I", "n", "t", "r", "o", "d", "u", "c", "t", "i", "o", "n">>

Body == <<"B", "o", "d", "y">>

\* One bold 18pt line "1. Introduction" at y = 700 and three 10pt body lines
\* at y = 650, 600 and 560.
ScenarioA ==
    <<Token(72, 700, Introduction, 18, TRUE), Token(72, 650, Body, 10, FALSE),
      Token(72, 600, Body, 10, FALSE), Token(72, 560, Body, 10, FALSE)>>

\* A bold heading, two list items in paragraphs of their own and a table of
\* two rows.
ListAndTable ==
    <<Token(72, 740, <<"S", "e", "c", "t", "i", "o", "n">>, 14, TRUE),
      Token(72, 700, <<"-", " ", "a">>, 10, FALSE),
      Token(72, 670, <<"-", " ", "b">>, 10, FALSE),
      Token(72, 500, <<"a", " ", " ", " ", "b", " ", " ", " ", "c">>, 10, FALSE),
      Token(72, 485, <<"d", " ", " ", " ", "e", " ", " ", " ", "f">>, 10, FALSE)>>

\* Two tokens of one line, the right one first, under a bold heading.
TwoColumns ==
    <<Token(300, 600, Body, 10, FALSE), Token(72, 601, Body, 10, FALSE),
      Token(72, 640, <<"S", "e", "c", "t", "i", "o", "n">>, 14, TRUE)>>

PageSource(fails, items) == [fails |-> fails, items |-> items]

PagePool ==
    {PageSource(TRUE, ScenarioA), PageSource(FALSE, <<>>),
     PageSource(FALSE, ScenarioA), PageSource(FALSE, ListAndTable),
     PageSource(FALSE, TwoColumns)}

Init ==
    /\ pc = "start"
    /\ textItems = <<>>
    /\ lines = <<>>
    /\ paragraphs = <<>>
    /\ regrouped = <<>>
    /\ OutlineIdle
    /\ OrderIdle
    /\ doc \in SeqsUpTo(PagePool, MaxPages) \ {<<>>}
    /\ pageNum = 0
    /\ abortController = <<>>
    /\ aborted = FALSE
    /\ result = <<>>
    /\ thrown = <<>>
    /\ AnalysisIdle
    /\ GeneratorIdle
    /\ AppIdle

\* processPDF up to the call of extractAllPages.
ProcessPDF ==
    /\ pc = "start"
    /\ abortController' = <<"controller">>
    /\ aborted' = FALSE
    /\ pageNum' = 1
    /\ pc' = "extracting"
    /\ UNCHANGED <<pageVars, outlineVars, orderVars, doc, result, thrown, analysisVars,
                   generatorVars, appVars>>

\* PDFProcessor.cancelProcessing.
CancelProcessing ==
    /\ abortController # <<>>
    /\ aborted' = TRUE
    /\ UNCHANGED <<pc, pageVars, outlineVars, orderVars, doc, pageNum,
                   abortController, result, thrown, analysisVars,
                   generatorVars, appVars>>

\* processPDF's catch and finally: the error goes on to the caller.
Throw(message) ==
    /\ thrown' = message
    /\ abortController' = <<>>
    /\ pc' = "thrown"
    /\ UNCHANGED <<pageNum, result>>

\* One round of the page loop of extractAllPages.
ExtractPage ==
    /\ pc = "extracting"
    /\ pageNum <= Len(doc)
    /\ IF aborted
       THEN Throw(CancelledMessage) /\ UNCHANGED pages
       ELSE IF doc[pageNum].fails
       THEN LET r == onPageError(pages, pageNum, <<"getPage failed">>) IN
            /\ pages' = r.pages
            /\ IF r.thrown # <<>> THEN Throw(r.thrown)
               ELSE /\ pageNum' = pageNum + 1
                    /\ UNCHANGED <<pc, abortController, result, thrown>>
       ELSE /\ \E sorted \in SortOutcomes(doc[pageNum].items, compareItems) :
                 pages' = Append(pages, goodPage(pageNum, sorted))
            /\ pageNum' = pageNum + 1
            /\ UNCHANGED <<pc, abortController, result, thrown>>
    /\ UNCHANGED <<pageVars, outlineVars, structure, readingOrder, otherOrder,
                   doc, aborted, analysisVars,
                   generatorVars, appVars>>

\* The loop is over: analyzeStructure, the return and the finally block.
AnalyzeStructure ==
    /\ pc = "extracting"
    /\ pageNum > Len(doc)
    /\ structure' = analyzeStructure(pages)
    /\ result' = <<[pages |-> pages, structure |-> analyzeStructure(pages),
                    pageCount |-> Len(doc)]>>
    /\ abortController' = <<>>
    /\ pc' = "returned"
    /\ UNCHANGED <<pageVars, outlineVars, pages, readingOrder, otherOrder,
                   doc, pageNum, aborted, thrown, analysisVars,
                   generatorVars, appVars>>

Next == ProcessPDF \/ CancelProcessing \/ ExtractPage \/ AnalyzeStructure

Spec == Init /\ [][Next]_vars

\* C7: when cancellation is signalled while pages are being processed,
\* processPDF returns the pages completed so far and their structure, tagged
\* as cancelled, and throws nothing.
C7_CancelReturnsPartial ==
    (pc \in {"returned", "thrown"} /\ aborted
       /\ 1 <= Len(pages) /\ Len(pages) < Len(doc)) =>
        /\ thrown = <<>>
        /\ result # <<>>
        /\ result[1].pages = pages
        /\ result[1].structure = analyzeStructure(pages)
        /\ "cancelled" \in DOMAIN result[1]

\* The slice of a document-wide list that belongs to page n, as page n alone
\* would give it.
SliceIsOwn(n) ==
    LET alone == analyzeStructure(<<result[1].pages[n]>>)
        whole == result[1].structure
    IN /\ OnPage(whole.headings, n) = alone.headings
       /\ OnPage(whole.lists, n) = alone.lists
       /\ OnPage(whole.tables, n) = alone.tables

\* C8: a page that fails or has no tokens does not abort the document: it
\* contributes no lines, paragraphs, headings, lists or tables, every other
\* page contributes what it contributes alone, and nothing is thrown because
\* of the page (only a cancellation throws).
C8_FailedPageIsLocal ==
    /\ thrown # <<>> => aborted /\ thrown = CancelledMessage
    /\ pc = "returned" =>
         /\ Len(result[1].pages) = Len(doc)
         /\ \A n \in 1..Len(doc) :
              LET page == result[1].pages[n] IN
              /\ page.pageNumber = n
              /\ IF doc[n].fails \/ doc[n].items = <<>>
                 THEN /\ page.content = [lines |-> <<>>, paragraphs |-> <<>>]
                      /\ OnPage(result[1].structure.headings, n) = <<>>
                      /\ OnPage(result[1].structure.lists, n) = <<>>
                      /\ OnPage(result[1].structure.tables, n) = <<>>
                 ELSE /\ \E sorted \in SortOutcomes(doc[n].items, compareItems) :
                           page = goodPage(n, sorted)
                      /\ page.content.paragraphs # <<>>
                      /\ SliceIsOwn(n)

\* Scenario D: three pages, the second fails, the first and third have headings.
C8_Witness ==
    /\ pc = "returned"
    /\ Len(doc) = 3
    /\ doc[2].fails /\ ~doc[1].fails /\ ~doc[3].fails
    /\ OnPage(result[1].structure.headings, 1) # <<>>
    /\ OnPage(result[1].structure.headings, 3) # <<>>
    /\ OnPage(result[1].structure.lists, 3) # <<>>
    /\ OnPage(result[1].structure.tables, 3) # <<>>
    /\ result[1].pages[2].error # <<>>

\* The paragraphs of page n that identifyHeadings did not flag.
OtherParagraphs(n) ==
    SelectSeq(result[1].pages[n].content.paragraphs,
              LAMBDA p : \A k \in 1..Len(result[1].structure.headings) :
                            LET h == result[1].structure.headings[k]
                            IN ~(h.pageNumber = n /\ h.y = p.y /\ h.text = Trim(p.text)))

IsScenarioA == doc = <<PageSource(FALSE, ScenarioA)>>

BodyYs(p) == {p.lines[k].y : k \in 1..Len(p.lines)}

\* C10 as stated: Scenario A gives exactly one Heading and exactly one other
\* Paragraph, which holds the three body lines.
C10_OneHeadingOneBodyParagraph ==
    (pc = "returned" /\ IsScenarioA) =>
        /\ Len(result[1].structure.headings) = 1
        /\ Len(OtherParagraphs(1)) = 1
        /\ BodyYs(OtherParagraphs(1)[1]) = {650, 600, 560}

\* C10 as amended: Scenario A gives exactly one Heading, "1. Introduction" at
\* y = 700, and three other Paragraphs, one for each body line (the body lines
\* are more than 20 units apart).
C10_OneHeadingThreeBodyParagraphs ==
    (pc = "returned" /\ IsScenarioA) =>
        /\ Len(result[1].structure.headings) = 1
        /\ result[1].structure.headings[1].text = Introduction
        /\ result[1].structure.headings[1].y = 700
        /\ Len(OtherParagraphs(1)) = 3
        /\ \A k \in 1..3 : Len(OtherParagraphs(1)[k].lines) = 1
        /\ [k \in 1..3 |-> OtherParagraphs(1)[k].y] = <<650, 600, 560>>

C10_Witness ==
    /\ pc = "returned"
    /\ IsScenarioA
    /\ Len(result[1].pages[1].content.lines) = 4
(***************************************************************************)
(* StructureAnalyzer.enhanceHeadings on headings whose text is a number or *)
(* a prefix word, a separator and a title.                                 *)
(***************************************************************************)
Title == <<"I", "n", "t", "r", "o", "d", "u", "c", "t", "i", "o", "n">>

NumberPool ==
    {<<>>, <<"1">>, <<"1", "2">>, <<"2", ".", "1">>,
     <<"C", "h", "a", "p", "t", "e", "r", " ", "1">>,
     <<"P", "A", "R", "T", " ", " ", "2">>}

SeparatorPool == {<<>>, <<".">>, <<".", " ">>, <<" ">>, <<")", " ">>, <<" ", " ">>}

TitlePool == {Title, <<"T", "w", "o", " ", " ", "W", "o", "r", "d", "s", " ">>,
              <<"I", "V", " ", "x", "!">>}

\* A decimal number, a dot and a space: the numbering of "1. Introduction".
IsDecimal(n) == n # <<>> /\ \A i \in 1..Len(n) : n[i] \in Digits

HeadingTextPool ==
    {n \o s \o t : n \in NumberPool, s \in SeparatorPool, t \in TitlePool}

InitHeadingText ==
    /\ pc = "start"
    /\ textItems = <<>>
    /\ lines = <<>>
    /\ paragraphs = <<>>
    /\ regrouped = <<>>
    /\ \E text \in HeadingTextPool, level \in 1..2 :
         headings \in {<<[Heading(level, 1, 700) EXCEPT !.text = text]>>,
                       <<[Heading(level, 1, 700) EXCEPT !.text = text],
                         [Heading(2, 1, 600) EXCEPT !.text = Title]>>}
    /\ outlineNodes = <<>>
    /\ outline = <<>>
    /\ OrderIdle
    /\ PdfIdle
    /\ AnalysisIdle
    /\ GeneratorIdle
    /\ AppIdle

EnhanceHeadings ==
    /\ pc = "start"
    /\ analysis' = [analysis EXCEPT !.enhancedHeadings = enhanceHeadings(headings)]
    /\ pc' = "done"
    /\ UNCHANGED <<pageVars, outlineVars, orderVars, pdfVars,
                   generatorVars, appVars>>

NextHeadingText == EnhanceHeadings

SpecHeadingText == InitHeadingText /\ [][NextHeadingText]_vars

\* The number n, a dot, a space and the title t.
Numbered(n, t) == n \o <<".", " ">> \o t

\* C11: for a heading whose text is a decimal number, a dot, a space and a
\* title, cleanText is the title alone (with its whitespace normalised), with
\* no leading digit, dot or space.
C11_CleanTextIsTitle ==
    pc = "done" =>
        \A i \in 1..Len(headings) :
            \A n \in NumberPool, t \in TitlePool :
                (IsDecimal(n) /\ headings[i].text = Numbered(n, t)) =>
                    LET clean == analysis.enhancedHeadings[i].cleanText
                    IN /\ clean = normalizeSpaces(Trim(t))
                       /\ clean[1] \notin Digits \cup {".", " "}

(***************************************************************************)
(* The Paragraph Segmenter, identifyLists and enhanceLists on the lines of *)
(* a page that lie one under the other.                                    *)
(***************************************************************************)
Alpha == <<"A", "l", "p", "h", "a">>
Beta == <<"B", "e", "t", "a">>
Gamma == <<"G", "a", "m", "m", "a">>

Bullet(t) == <<"U+2022", " ">> \o t

BulletTextPool == {Bullet(Alpha), Bullet(Beta), Bullet(Gamma), Body}

\* The distance in y from a line to the line above it.
GapPool == {20, 21, 40}

TopY == 700

\* Lines of one font size; line i lies gaps[i] under line i - 1.
LinesUnder(texts, gaps) ==
    [i \in 1..Len(texts) |-> Line(TopY - Sum(SubSeq(gaps, 1, i)), texts[i], 10)]

InitBullets ==
    /\ pc = "start"
    /\ textItems = <<>>
    /\ \E n \in 1..MaxLines :
         \E texts \in [1..n -> BulletTextPool], gaps \in [1..n -> GapPool] :
            lines = LinesUnder(texts, gaps)
    /\ paragraphs = <<>>
    /\ regrouped = <<>>
    /\ OutlineIdle
    /\ OrderIdle
    /\ PdfIdle
    /\ AnalysisIdle
    /\ GeneratorIdle
    /\ AppIdle

\* identifyLists on the paragraphs of the page.
IdentifyLists ==
    /\ pc = "grouped"
    /\ structure' = [structure EXCEPT !.lists = identifyLists(paragraphs)]
    /\ pc' = "listed"
    /\ UNCHANGED <<pageVars, outlineVars, pages, readingOrder, otherOrder,
                   pdfVars, analysisVars,
                   generatorVars, appVars>>

EnhanceLists ==
    /\ pc = "listed"
    /\ analysis' = [analysis EXCEPT !.enhancedLists = enhanceLists(structure.lists)]
    /\ pc' = "done"
    /\ UNCHANGED <<pageVars, outlineVars, orderVars, pdfVars,
                   generatorVars, appVars>>

NextBullets == GroupLinesIntoParagraphs \/ IdentifyLists \/ EnhanceLists

SpecBullets == InitBullets /\ [][NextBullets]_vars

\* The three lines of Scenario B, at strictly decreasing y.
IsScenarioB ==
    /\ Len(lines) = 3
    /\ [i \in 1..3 |-> lines[i].text] = <<Bullet(Alpha), Bullet(Beta), Bullet(Gamma)>>
    /\ lines[1].y > lines[2].y /\ lines[2].y > lines[3].y

ItemTexts(list) == [i \in 1..Len(list.cleanItems) |-> list.cleanItems[i].text]

\* C12 as stated: the three lines of Scenario B, at any strictly decreasing y,
\* give exactly one unordered ListBlock of style bullet with exactly three
\* ListItems, "Alpha", "Beta" and "Gamma".
C12_ThreeBulletsThreeItems ==
    (pc = "done" /\ IsScenarioB) =>
        /\ Len(analysis.enhancedLists) = 1
        /\ analysis.enhancedLists[1].type = "unordered"
        /\ analysis.enhancedLists[1].style = "bullet"
        /\ ItemTexts(analysis.enhancedLists[1]) = <<Alpha, Beta, Gamma>>

\* The lines of Scenario B that start a paragraph: the first, and each line
\* more than 20 units under the line above it.
StartsParagraph(i) == i = 1 \/ lines[i - 1].y - lines[i].y > LargeGap

\* C12 as amended: the three lines of Scenario B give exactly one unordered
\* ListBlock of style bullet, with one ListItem for each line that lies more
\* than 20 units under the line above it (and one for the first line); a line
\* 20 units or less under the line above it is part of that line's item, its
\* bullet included.  With both gaps above 20 the items are "Alpha", "Beta"
\* and "Gamma".
C12_OneItemPerSeparatedBullet ==
    (pc = "done" /\ IsScenarioB) =>
        LET list == analysis.enhancedLists[1] IN
        /\ Len(analysis.enhancedLists) = 1
        /\ list.type = "unordered"
        /\ list.style = "bullet"
        /\ Len(list.cleanItems) = Cardinality({i \in 1..3 : StartsParagraph(i)})
        /\ ItemTexts(list) =
             (IF StartsParagraph(2)
              THEN IF StartsParagraph(3) THEN <<Alpha, Beta, Gamma>>
                   ELSE <<Alpha, Beta \o <<" ">> \o Bullet(Gamma)>>
              ELSE IF StartsParagraph(3)
                   THEN <<Alpha \o <<" ">> \o Bullet(Beta), Gamma>>
                   ELSE <<Alpha \o <<" ">> \o Bullet(Beta) \o <<" ">> \o Bullet(Gamma)>>)

\* Scenario B with the first two lines far apart and the last two close.
C12_Witness ==
    /\ pc = "done"
    /\ IsScenarioB
    /\ StartsParagraph(2)
    /\ ~StartsParagraph(3)
    /\ Len(analysis.enhancedLists[1].cleanItems) = 2

(***************************************************************************)
(* StructureAnalyzer.identifySections on a document of two pages whose     *)
(* paragraphs are headings of level 1 or 2 and body paragraphs.            *)
(***************************************************************************)
\* What a paragraph is: 0 for a body paragraph, else the level of a heading.
KindPool == {0, 1, 2}

LineStep == 50

\* The paragraph of item i, the k-th paragraph of its page.  A heading is a
\* bold 14pt line with a capital letter, a body paragraph a 10pt line.
SectionParagraph(kind, i, k) ==
    makeParagraph(<<[Line(TopY - LineStep * k,
                          IF kind > 0 THEN <<UpperCase[i]>> ELSE <<LowerCase[i]>>,
                          IF kind > 0 THEN 14 ELSE 10)
                       EXCEPT !.bold = kind > 0]>>)

\* The items of page n: the first split items are on page 1, the others on
\* page 2.
ItemsOnPage(kinds, split, n) ==
    IF n = 1 THEN [i \in 1..split |-> i]
    ELSE [i \in 1..Len(kinds) - split |-> split + i]

SectionPages(kinds, split) ==
    [n \in PageNumbers |->
       [pageNumber |-> n,
        content |-> [lines |-> <<>>,
                     paragraphs |->
                        [k \in 1..Len(ItemsOnPage(kinds, split, n)) |->
                           LET i == ItemsOnPage(kinds, split, n)[k]
                           IN SectionParagraph(kinds[i], i, k)]]]]

\* The headings analyzeStructure lists for the pages, with the given levels.
RECURSIVE SectionHeadings(_, _, _)
SectionHeadings(kinds, split, i) ==
    IF i > Len(kinds) THEN <<>>
    ELSE (IF kinds[i] = 0 THEN <<>>
          ELSE LET n == IF i <= split THEN 1 ELSE 2
                   k == IF i <= split THEN i ELSE i - split
                   p == SectionParagraph(kinds[i], i, k)
               IN <<[text |-> Trim(p.text), level |-> kinds[i],
                     fontSize |-> p.fontSize, bold |-> p.bold, y |-> p.y,
                     pageNumber |-> n]>>)
         \o SectionHeadings(kinds, split, i + 1)

InitSections ==
    /\ pc = "start"
    /\ textItems = <<>>
    /\ lines = <<>>
    /\ paragraphs = <<>>
    /\ regrouped = <<>>
    /\ OutlineIdle
    /\ \E n \in 1..MaxElements :
         \E kinds \in [1..n -> KindPool], split \in 0..n :
            /\ pages = SectionPages(kinds, split)
            /\ structure = [EmptyStructure EXCEPT
                              !.headings = SectionHeadings(kinds, split, 1)]
    /\ readingOrder = <<>>
    /\ otherOrder = <<>>
    /\ PdfIdle
    /\ AnalysisIdle
    /\ GeneratorIdle
    /\ AppIdle

IdentifySections ==
    /\ pc = "start"
    /\ LET sorted == StableSort(structure.headings, compareHeadings)
       IN /\ structure' = [structure EXCEPT !.headings = sorted]
          /\ analysis' = [analysis EXCEPT
                            !.sections = identifySections(pages, sorted)]
    /\ pc' = "done"
    /\ UNCHANGED <<pageVars, outlineVars, pages, readingOrder, otherOrder, pdfVars,
                   generatorVars, appVars>>

NextSections == IdentifySections

SpecSections == InitSections /\ [][NextSections]_vars

\* The paragraphs of the document in page order, each with its page number.
DocParagraphs ==
    withPage(pages[1].content.paragraphs, 1) \o withPage(pages[2].content.paragraphs, 2)

IsParagraphOf(p, h) ==
    p.pageNumber = h.pageNumber /\ p.y = h.y /\ p.text = h.text

\* The place of heading h among the paragraphs of the document.
PlaceOf(h) == CHOOSE k \in 1..Len(DocParagraphs) : IsParagraphOf(DocParagraphs[k], h)

\* The place of the first heading after heading i whose level is at or above
\* that of heading i; one past the last paragraph if there is none.
SectionEnd(i) ==
    LET hs == structure.headings
        peers == {PlaceOf(hs[j]) : j \in {j \in i + 1..Len(hs) :
                                           hs[j].level <= hs[i].level}}
    IN IF peers = {} THEN Len(DocParagraphs) + 1
       ELSE CHOOSE k \in peers : \A m \in peers : k <= m

RECURSIVE SectionText(_)
SectionText(ps) ==
    IF ps = <<>> THEN <<>> ELSE ps[1].text \o BlankLine \o SectionText(Tail(ps))

IsHeadingParagraph(p) ==
    \E j \in 1..Len(structure.headings) : IsParagraphOf(p, structure.headings[j])

\* The paragraphs between heading i and the end of its section.
Between(i) ==
    SubSeq(DocParagraphs, PlaceOf(structure.headings[i]) + 1, SectionEnd(i) - 1)

\* C13: the content of each Section is the paragraph text between its Heading
\* and the next Heading whose level is at or above its own (with or without
\* the text of the deeper sub-headings themselves), so the text under deeper
\* sub-headings is part of the content.
C13_ContentUpToPeerHeading ==
    pc = "done" =>
        \A i \in 1..Len(analysis.sections) :
            analysis.sections[i].content \in
                {Trim(SectionText(Between(i))),
                 Trim(SectionText(SelectSeq(Between(i),
                                            LAMBDA p : ~IsHeadingParagraph(p))))}

(***************************************************************************)
(* The Line Assembler on token lists in which a token may lack x, y or     *)
(* both.                                                                   *)
(***************************************************************************)
MalformedPool ==
    {Token(0, 0, A, 10, FALSE), Token(1, 0, A, 10, FALSE),
     Token(0, 20, A, 10, FALSE), Token(Undefined, 0, A, 10, FALSE),
     Token(0, Undefined, A, 10, FALSE), Token(Undefined, Undefined, A, 10, FALSE)}

InitTokens ==
    /\ pc = "start"
    /\ textItems \in SeqsUpTo(MalformedPool, MaxTokens)
    /\ lines = <<>>
    /\ paragraphs = <<>>
    /\ regrouped = <<>>
    /\ OutlineIdle
    /\ OrderIdle
    /\ PdfIdle
    /\ AnalysisIdle
    /\ GeneratorIdle
    /\ AppIdle

NextTokens == ProcessTextItems

SpecTokens == InitTokens /\ [][NextTokens]_vars

\* A token with both coordinates.
WellFormed(item) == Defined(item.x) /\ Defined(item.y)

\* C14: a token with a missing coordinate is dropped and does not affect its
\* siblings: after processTextItems it is in no Line, and the Lines are those
\* built from the tokens that have both coordinates.
C14_MalformedTokenDropped ==
    [][pc = "start" =>
         /\ \A i \in 1..Len(lines') : \A k \in 1..Len(lines'[i].items) :
                WellFormed(lines'[i].items[k])
         /\ lines' \in {processTextItemsLines(sorted) :
                          sorted \in SortOutcomes(SelectSeq(textItems, WellFormed),
                                                  compareItems)}]_vars

(***************************************************************************)
(* PDFProcessor.identifyTables on any lines of a page.                     *)
(***************************************************************************)
Wide == <<" ", " ", " ">>

\* A line text of n segments with three spaces between them; the space
\* between two words of one segment for n = 1.
RECURSIVE Columns(_)
Columns(n) == IF n = 1 THEN <<"a", " ", "b">> ELSE Columns(n - 1) \o Wide \o <<"c">>

TableLinePool ==
    {Line(y, Columns(n), 10) : y \in {100, 75, 70}, n \in {1, 3, 4, 5}}

InitTables ==
    /\ pc = "start"
    /\ textItems = <<>>
    /\ lines \in SeqsUpTo(TableLinePool, MaxLines)
    /\ paragraphs = <<>>
    /\ regrouped = <<>>
    /\ OutlineIdle
    /\ OrderIdle
    /\ PdfIdle
    /\ AnalysisIdle
    /\ GeneratorIdle
    /\ AppIdle

IdentifyTables ==
    /\ pc = "start"
    /\ structure' = [structure EXCEPT !.tables = identifyTables(lines)]
    /\ pc' = "done"
    /\ UNCHANGED <<pageVars, outlineVars, pages, readingOrder, otherOrder,
                   pdfVars, analysisVars,
                   generatorVars, appVars>>

NextTables == IdentifyTables

SpecTables == InitTables /\ [][NextTables]_vars

\* The table-row candidates of the page, in the order of its lines.
Candidates == SelectSeq(lines, LAMBDA l : Len(SplitWide(l.text)) >= MinSegments)

\* The rows of table t are the candidates from place s on.
RowsFrom(t, s) ==
    /\ s + Len(t.rows) - 1 <= Len(Candidates)
    /\ \A k \in 1..Len(t.rows) :
         LET c == Candidates[s + k - 1]
         IN t.rows[k] = [text |-> c.text, segments |-> SplitWide(c.text), y |-> c.y]

\* C15: every TableBlock is made of at least two table-row candidates that are
\* consecutive among the page's candidates, each row less than 30 units in y
\* from the row before it and with a segment count within 1 of the first
\* row's; columnCount is the first row's segment count.
C15_TableRowsContiguous ==
    pc = "done" =>
        \A i \in 1..Len(structure.tables) :
            LET t == structure.tables[i] IN
            /\ Len(t.rows) >= MinRows
            /\ \E s \in 1..Len(Candidates) : RowsFrom(t, s)
            /\ \A k \in 1..Len(t.rows) :
                 /\ Len(t.rows[k].segments) >= MinSegments
                 /\ Abs(Len(t.rows[k].segments) - Len(t.rows[1].segments)) <= 1
                 /\ k > 1 => Abs(t.rows[k].y - t.rows[k - 1].y) < RowGap
            /\ t.columnCount = Len(t.rows[1].segments)
            /\ t.y = t.rows[1].y

\* Three candidates, of which two of unequal segment counts make the table.
C15_Witness ==
    /\ pc = "done"
    /\ Len(Candidates) = 3
    /\ Len(structure.tables) = 1
    /\ Len(structure.tables[1].rows) = 2
    /\ Len(structure.tables[1].rows[1].segments)
         # Len(structure.tables[1].rows[2].segments)

(***************************************************************************)
(* PDFProcessor.identifyLists and StructureAnalyzer.enhanceLists on any    *)
(* paragraphs of a page, one under the other.                              *)
(***************************************************************************)
Indent == <<" ", " ", " ", " ">>

ListTextPool ==
    {<<"-", " ", "a">>, Bullet(A), <<"1", ".", " ", "a">>, <<"b", ")", " ", "a">>,
     Body, Indent \o <<"-", " ", "a">>}

\* The paragraph object with the given text, the i-th of the page.
ListParagraph(text, i) ==
    [makeParagraph(<<Line(TopY - LineStep * i, text, 10)>>) EXCEPT !.text = text]

InitLists ==
    /\ pc = "grouped"
    /\ textItems = <<>>
    /\ lines = <<>>
    /\ \E n \in 1..MaxElements : \E texts \in [1..n -> ListTextPool] :
         paragraphs = [i \in 1..n |-> ListParagraph(texts[i], i)]
    /\ regrouped = <<>>
    /\ OutlineIdle
    /\ OrderIdle
    /\ PdfIdle
    /\ AnalysisIdle
    /\ GeneratorIdle
    /\ AppIdle

NextLists == IdentifyLists \/ EnhanceLists

SpecLists == InitLists /\ [][NextLists]_vars

\* The broad type of a paragraph: "unordered" for a bullet marker, "ordered"
\* for a numbered or lettered one, "none" without a marker.
BroadType(p) ==
    IF isBulletPoint(Trim(p.text)) THEN "unordered"
    ELSE IF isNumberedItem(Trim(p.text)) \/ isLetterItem(Trim(p.text)) THEN "ordered"
    ELSE "none"

\* The place of an item's paragraph among the paragraphs of the page (every
\* paragraph has a y of its own).
SourceOf(item) == CHOOSE j \in 1..Len(paragraphs) : paragraphs[j].y = item.y

\* C16: every ListBlock is made of marker-prefixed paragraphs that are
\* consecutive in the page's paragraph sequence, in input order and of one
\* broad type; a paragraph without a marker or a change of broad type ends
\* the block, and every marker-prefixed paragraph is an item of one block.
C16_ListItemsContiguous ==
    pc # "grouped" =>
        LET ls == structure.lists IN
        /\ \A i \in 1..Len(ls) :
             /\ Len(ls[i].items) >= 1
             /\ ls[i].y = ls[i].items[1].y
             /\ \A k \in 1..Len(ls[i].items) :
                  LET item == ls[i].items[k] IN
                  /\ \E j \in 1..Len(paragraphs) : paragraphs[j].y = item.y
                  /\ BroadType(paragraphs[SourceOf(item)]) = ls[i].type
                  /\ ls[i].type # "none"
                  /\ k > 1 => SourceOf(item) = SourceOf(ls[i].items[k - 1]) + 1
             /\ i > 1 =>
                  LET first == SourceOf(ls[i].items[1])
                      last  == SourceOf(ls[i - 1].items[Len(ls[i - 1].items)])
                  IN /\ last < first
                     /\ last + 1 = first => ls[i - 1].type # ls[i].type
        /\ \A j \in 1..Len(paragraphs) :
             BroadType(paragraphs[j]) # "none" =>
                Cardinality({<<i, k>> \in (1..Len(ls)) \X (1..Len(paragraphs)) :
                               /\ k <= Len(ls[i].items)
                               /\ ls[i].items[k].y = paragraphs[j].y}) = 1

\* A block of two items ended by a change of broad type.
C16_Witness ==
    /\ pc = "listed"
    /\ Len(structure.lists) = 2
    /\ Len(structure.lists[1].items) = 2
    /\ SourceOf(structure.lists[2].items[1]) = 3

Repeat(c, n) == [i \in 1..n |-> c]

\* [text, fontSize, bold] of a paragraph.
HeadingParagraphPool ==
    {<<A, f, FALSE>> : f \in {0, 7, 10, 14, 20}}
    \cup {<<A, 10, TRUE>>,
          <<<<"C", "h", "a", "p", "t", "e", "r", " ", "1">>, 10, FALSE>>,
          <<<<"S", "e", "c", "t", "i", "o", "n">>, 10, FALSE>>,
          <<<<"2", ".", "1", " ", "a">>, 10, FALSE>>,
          <<<<"2", " ", "a">>, 10, FALSE>>,
          <<Repeat("a", ShortText), 20, TRUE>>,
          <<Repeat("a", ShortText - 1), 20, TRUE>>}

\* The paragraph object of one line, the i-th of the page.
HeadingParagraph(p, i) ==
    makeParagraph(<<[Line(TopY - LineStep * i, p[1], p[2]) EXCEPT !.bold = p[3]]>>)

InitHeadings ==
    /\ pc = "grouped"
    /\ textItems = <<>>
    /\ lines = <<>>
    /\ \E n \in 1..MaxElements : \E ps \in [1..n -> HeadingParagraphPool] :
         paragraphs = [i \in 1..n |-> HeadingParagraph(ps[i], i)]
    /\ regrouped = <<>>
    /\ OutlineIdle
    /\ OrderIdle
    /\ PdfIdle
    /\ AnalysisIdle
    /\ GeneratorIdle
    /\ AppIdle

IdentifyHeadings ==
    /\ pc = "grouped"
    /\ structure' = [structure EXCEPT !.headings = identifyHeadings(paragraphs)]
    /\ pc' = "done"
    /\ UNCHANGED <<pageVars, outlineVars, pages, readingOrder, otherOrder,
                   pdfVars, analysisVars,
                   generatorVars, appVars>>

NextHeadings == IdentifyHeadings

SpecHeadings == InitHeadings /\ [][NextHeadings]_vars

\* The paragraphs of the page with a positive fontSize.
Sized == SelectSeq(paragraphs, LAMBDA p : p.fontSize > 0)

RECURSIVE SumOfSizes(_)
SumOfSizes(ps) == IF ps = <<>> THEN 0 ELSE ps[1].fontSize + SumOfSizes(Tail(ps))

\* fontSize > k/10 x the mean of the positive font sizes of the page.
AboveMean(fontSize, k) ==
    Len(Sized) > 0 /\ fontSize * Len(Sized) * 10 > SumOfSizes(Sized) * k

StartsWithNumberDot(t) ==
    \E d \in 1..Len(t) - 1 : (\A i \in 1..d : t[i] \in Digits) /\ t[d + 1] = "."

\* The rule of C17 for a paragraph to be a heading.
IsHeadingByRule(p) ==
    /\ Len(p.text) < 100
    /\ \/ AboveMean(p.fontSize, 12)
       \/ p.bold
       \/ StartsWith(p.text, <<"C", "h", "a", "p", "t", "e", "r">>)
       \/ StartsWith(p.text, <<"S", "e", "c", "t", "i", "o", "n">>)
       \/ StartsWithNumberDot(p.text)

\* The ladder of C17.
LevelByRule(p) ==
    IF AboveMean(p.fontSize, 18) THEN 1
    ELSE IF AboveMean(p.fontSize, 15) THEN 2
    ELSE IF AboveMean(p.fontSize, 13) THEN 3
    ELSE IF AboveMean(p.fontSize, 11) THEN 4
    ELSE 5

\* C17: the headings of the page are exactly the paragraphs shorter than 100
\* characters that are larger than 1.2 x the page mean, bold, or start with
\* "Chapter", "Section" or a number and a dot, each with the level the ladder
\* 1.8, 1.5, 1.3, 1.1 gives its fontSize against the mean of the positive
\* font sizes of the page.
C17_HeadingRuleAndLadder ==
    pc = "done" =>
        LET flagged == SelectSeq(paragraphs, IsHeadingByRule)
        IN /\ Len(structure.headings) = Len(flagged)
           /\ \A i \in 1..Len(flagged) :
                /\ structure.headings[i].y = flagged[i].y
                /\ structure.headings[i].text = flagged[i].text
                /\ structure.headings[i].level = LevelByRule(flagged[i])

(***************************************************************************)
(* StructureAnalyzer.findCrossReferences on pages whose raw text holds a   *)
(* reference between two stretches of filling.                             *)
(***************************************************************************)
ReferenceTextPool ==
    {<<"p", "a", "g", "e", " ", "1", "2">>, <<"F", "i", "g", ".", "3">>,
     <<"S", "e", "c", "t", "i", "o", "n", " ", " ", "2", ".", "1">>,
     <<"A", "p", "p", "e", "n", "d", "i", "x", " ", "B">>,
     <<"t", "b", "l", ".", "4", " ", "c", "h", ".", " ", "5">>}

\* How many characters of filling lie before and after the reference.
PadPool == {0, 3, 49, 50, 51, 60}

FillPool == {"x", " "}

RawText(before, a, reference, after, b) ==
    Repeat(before, a) \o reference \o Repeat(after, b)

InitRefs ==
    /\ pc = "start"
    /\ textItems = <<>>
    /\ lines = <<>>
    /\ paragraphs = <<>>
    /\ regrouped = <<>>
    /\ OutlineIdle
    /\ \E before \in FillPool, after \in FillPool, a \in PadPool, b \in PadPool,
          reference \in ReferenceTextPool :
         pages = <<[pageNumber |-> 1,
                    rawText |-> RawText(before, a, reference, after, b)]>>
    /\ structure = EmptyStructure
    /\ readingOrder = <<>>
    /\ otherOrder = <<>>
    /\ PdfIdle
    /\ AnalysisIdle
    /\ GeneratorIdle
    /\ AppIdle

FindCrossReferences ==
    /\ pc = "start"
    /\ analysis' = [analysis EXCEPT !.crossReferences = findCrossReferences(pages)]
    /\ pc' = "done"
    /\ UNCHANGED <<pageVars, outlineVars, orderVars, pdfVars,
                   generatorVars, appVars>>

NextRefs == FindCrossReferences

SpecRefs == InitRefs /\ [][NextRefs]_vars

\* m is a part of t.
IsPartOf(m, t) ==
    \E k \in 0..Len(t) - Len(m) : SubSeq(t, k + 1, k + Len(m)) = m

\* C20: the context of every CrossReference is a window of the page's raw
\* text of at most 50 characters that holds the match.
C20_ContextAtMostFifty ==
    pc = "done" =>
        \A i \in 1..Len(analysis.crossReferences) :
            LET r == analysis.crossReferences[i] IN
            /\ Len(r.context) <= ContextLength
            /\ IsPartOf(r.fullMatch, r.context)
            /\ IsPartOf(r.context, pages[r.pageNumber].rawText)

(***************************************************************************)
(* PDFToMarkdownApp.processFile on one document of up to MaxConvertPages   *)
(* pages: processPDF, then StructureAnalyzer.analyzeStructure and          *)
(* MarkdownGenerator.generateMarkdown in the continuation of its await.    *)
(***************************************************************************)
MaxConvertPages == 2

Section == <<"S", "e", "c", "t", "i", "o", "n">>

\* A body line and a table of two rows whose first row is in capitals.
CapitalsTable ==
    <<Token(72, 740, Body, 10, FALSE),
      Token(72, 500, <<"I", "D", " ", " ", " ", "N", "A", "M", "E", " ", " ", " ",
                       "Q", "T", "Y">>, 10, FALSE),
      Token(72, 485, <<"a", "1", " ", " ", " ", "b", "2", " ", " ", " ",
                       "c", "3">>, 10, FALSE)>>

\* A table of two rows whose first row holds the words Name and Date.
KeywordTable ==
    <<Token(72, 500, <<"N", "a", "m", "e", " ", " ", " ", "D", "a", "t", "e",
                       " ", " ", " ", "x">>, 10, FALSE),
      Token(72, 485, <<"a", " ", " ", " ", "b", " ", " ", " ", "c">>, 10, FALSE)>>

\* A large heading, a smaller heading under it and two body lines.
NestedHeadings ==
    <<Token(72, 700, Section, 24, TRUE), Token(72, 650, Introduction, 14, TRUE),
      Token(72, 600, Body, 10, FALSE), Token(72, 560, Body, 10, FALSE)>>

\* A small heading, a larger heading under it and two body lines.
RisingHeadings ==
    <<Token(72, 700, Introduction, 14, TRUE), Token(72, 650, Section, 24, TRUE),
      Token(72, 600, Body, 10, FALSE), Token(72, 560, Body, 10, FALSE)>>

ConvertPool ==
    {PageSource(TRUE, ScenarioA), PageSource(FALSE, CapitalsTable),
     PageSource(FALSE, KeywordTable), PageSource(FALSE, ListAndTable),
     PageSource(FALSE, NestedHeadings), PageSource(FALSE, RisingHeadings)}

InitConvert ==
    /\ pc = "start"
    /\ textItems = <<>>
    /\ lines = <<>>
    /\ paragraphs = <<>>
    /\ regrouped = <<>>
    /\ OutlineIdle
    /\ OrderIdle
    /\ doc \in SeqsUpTo(ConvertPool, MaxConvertPages) \ {<<>>}
    /\ pageNum = 0
    /\ abortController = <<>>
    /\ aborted = FALSE
    /\ result = <<>>
    /\ thrown = <<>>
    /\ AnalysisIdle
    /\ GeneratorIdle
    /\ queueItems = <<>>
    /\ fileQueue = <<>>
    /\ conversionResults = <<>>
    /\ isProcessing = FALSE
    /\ isPaused = FALSE
    /\ runs = <<>>
    /\ \E toc, tables \in BOOLEAN :
         settings = [defaultSettings EXCEPT !.addMetadata = FALSE, !.addToc = toc,
                                            !.preserveTables = tables]

\* PDFToMarkdownApp.getMarkdownOptions
getMarkdownOptions(s) ==
    [flavor |-> s.markdownFlavor, preserveTables |-> s.preserveTables,
     preserveLinks |-> s.preserveLinks, addMetadata |-> s.addMetadata,
     addToc |-> s.addToc]

\* textContent.items.map(item => item.str).join(' ')
rawText(source) == JoinSpace(Map(source.items, LAMBDA item : item.text))

\* The pages with the rawText that extractAllPages gave them: the text of
\* the page's items in the order of the document, '' for a page that failed.
withRawText(ps, document) ==
    [n \in 1..Len(ps) |->
        [rawText |-> IF ps[n].error # <<>> THEN <<>> ELSE rawText(document[n])]
        @@ ps[n]]

\* StructureAnalyzer.analyzeStructure, the headings already sorted by
\* generateOutline; documentType and metadata are left out.
structureAnalysis(ps, struct) ==
    [sections |-> identifySections(ps, struct.headings),
     enhancedHeadings |-> enhanceHeadings(struct.headings),
     enhancedLists |-> enhanceLists(struct.lists),
     enhancedTables |-> enhanceTables(struct.tables),
     crossReferences |-> findCrossReferences(ps)]

\* processFile after processPDF has returned: analyzeStructure (whose
\* generateOutline sorts content.structure.headings in place) and
\* generateMarkdown.
ConvertContent ==
    /\ pc = "returned"
    /\ LET sorted == StableSort(structure.headings, compareHeadings)
           built == generateOutline(sorted)
           struct == [structure EXCEPT !.headings = sorted]
           order == determineReadingOrder(pages, struct)
           an == structureAnalysis(withRawText(pages, doc), struct)
       IN /\ structure' = struct
          /\ result' = <<[result[1] EXCEPT !.structure = struct]>>
          /\ headings' = sorted
          /\ outlineNodes' = built.nodes
          /\ outline' = built.outline
          /\ analysis' = an
          /\ readingOrder' = order
          /\ markdown' = generateMarkdown(
                 [enhancedHeadings |-> an.enhancedHeadings, readingOrder |-> order],
                 mergeOptions(options, getMarkdownOptions(settings)))
    /\ pc' = "converted"
    /\ UNCHANGED <<pageVars, pages, otherOrder, doc, pageNum, abortController,
                   aborted, thrown, options, turndownService, appVars>>

NextConvert ==
    ProcessPDF \/ CancelProcessing \/ ExtractPage \/ AnalyzeStructure \/ ConvertContent

SpecConvert == InitConvert /\ [][NextConvert]_vars

\* part is a part of text.
Contains(text, part) ==
    \E i \in 1..(Len(text) - Len(part) + 1) :
        SubSeq(text, i, i + Len(part) - 1) = part

\* The header row and the separator row for the headers.
HeaderRows(hs) ==
    tableRow(Map(hs, cleanText)) \o tableRow(Map(hs, LAMBDA h : <<"-", "-", "-">>))

\* C21: when the first row of a detected table qualifies as a header row, the
\* Markdown emitted for the table holds a header row followed by a '---'
\* separator row (tables being preserved).
C21_HeaderRowEmitted ==
    (pc = "converted" /\ settings.preserveTables) =>
        \A i \in 1..Len(structure.tables) :
            LET hs == detectTableHeaders(structure.tables[i])
            IN Len(hs) > 0 => Contains(markdown, HeaderRows(hs))

\* The number of paragraphs of all pages.
RECURSIVE ParagraphCount(_)
ParagraphCount(ps) ==
    IF ps = <<>> THEN 0
    ELSE Len(ps[1].content.paragraphs) + ParagraphCount(Tail(ps))

\* C27: determineReadingOrder emits one element per heading, per paragraph,
\* per list and per table, the paragraphs that were flagged as headings
\* included: the length of readingOrder is the sum of the four counts, and
\* every heading element has a paragraph element with the same pageNumber, y
\* and order.
C27_HeadingsKeepTheirParagraphs ==
    pc = "converted" =>
        /\ Len(readingOrder) = Len(structure.headings) + ParagraphCount(pages)
                               + Len(structure.lists) + Len(structure.tables)
        /\ \A i \in 1..Len(readingOrder) :
             readingOrder[i].type = "heading" =>
                \E j \in 1..Len(readingOrder) :
                    /\ readingOrder[j].type = "paragraph"
                    /\ readingOrder[j].pageNumber = readingOrder[i].pageNumber
                    /\ readingOrder[j].y = readingOrder[i].y
                    /\ readingOrder[j].order = readingOrder[i].order

\* A document of two pages with headings, a list and a table.
C27_Witness ==
    /\ pc = "converted"
    /\ Len(pages) = 2
    /\ Len(structure.headings) >= 2
    /\ Len(structure.lists) >= 1
    /\ Len(structure.tables) >= 1
    /\ \E i \in 1..Len(readingOrder) : readingOrder[i].type = "heading"

\* C29: for every Section, hasSubsections is true exactly when the outline
\* item that generateOutline built for the same heading has a child.
C29_SubsectionsAreOutlineChildren ==
    pc = "converted" =>
        \A i \in 1..Len(analysis.sections) :
            analysis.sections[i].hasSubsections
                <=> (Len(outlineNodes[i].children) > 0)

(***************************************************************************)
(* MarkdownGenerator.updateOptions called any number of times on a         *)
(* generator constructed with any flavor.                                  *)
(***************************************************************************)
Flavors == {"github", "commonmark", "pandoc"}

\* The options that a call of updateOptions may give: a flavor or none, and
\* any of the switches.
SwitchNames == {"preserveTables", "preserveLinks", "addMetadata", "addToc"}

NewOptionsPool ==
    {flavor @@ switches :
        flavor \in {<<>>} \cup {[flavor |-> f] : f \in Flavors},
        switches \in UNION {[D -> BOOLEAN] : D \in SUBSET SwitchNames}}

InitGenerator ==
    /\ pc = "start"
    /\ textItems = <<>>
    /\ lines = <<>>
    /\ paragraphs = <<>>
    /\ regrouped = <<>>
    /\ OutlineIdle
    /\ OrderIdle
    /\ PdfIdle
    /\ AnalysisIdle
    /\ \E flavor \in Flavors :
         /\ options = constructedOptions(flavor)
         /\ turndownService = initializeTurndown(constructedOptions(flavor))
    /\ markdown = <<>>
    /\ AppIdle

UpdateOptions ==
    /\ \E newOptions \in NewOptionsPool :
         LET after == updateOptions(options, turndownService, newOptions)
         IN /\ options' = after.options
            /\ turndownService' = after.turndownService
    /\ UNCHANGED <<pc, pageVars, outlineVars, orderVars, pdfVars, analysisVars,
                   markdown, appVars>>

NextGenerator == UpdateOptions

SpecGenerator == InitGenerator /\ [][NextGenerator]_vars

\* C28: after any sequence of updateOptions calls, the flavor-specific rules
\* installed in the Turndown service are those of the current options.flavor.
C28_RulesFollowFlavor ==
    turndownService.rules = addFlavorSpecificRules(options.flavor)


(***************************************************************************)
(* PDFToMarkdownApp: the file queue, startProcessing, processFile,         *)
(* pauseProcessing, cancelProcessing, retryFailedFiles, removeFromQueue.   *)
(* The files are in the queue already (addFilesToQueue has run); a step is *)
(* one turn of the event loop: a handler, or the settling of the promise a *)
(* run awaits together with every continuation that follows it without    *)
(* another wait (processPDF's finally, the rest of processFile, the loop   *)
(* of startProcessing and the next processFile up to its await).           *)
(***************************************************************************)
MaxFiles == 2
MaxRuns == 2

FileNames == {"a.pdf", "b.pdf"}
FileKinds == {"good", "corrupt"}
ConcurrencyPool == {1, 2}
CorruptMessage == <<"Invalid PDF structure">>

\* addFilesToQueue: the queue item made for one file.
queueItem(name, kind) ==
    [filename |-> name, file |-> kind, status |-> "pending", progress |-> 0,
     error |-> <<>>, result |-> <<>>]

ItemIds == DOMAIN queueItems
RunIds == DOMAIN runs

\* The application with up to MaxFiles files in its queue, their names drawn
\* from names and settings.maxConcurrent from limits.
InitApp(names, limits) ==
    /\ pc = "start"
    /\ textItems = <<>>
    /\ lines = <<>>
    /\ paragraphs = <<>>
    /\ regrouped = <<>>
    /\ OutlineIdle
    /\ OrderIdle
    /\ PdfIdle
    /\ AnalysisIdle
    /\ GeneratorIdle
    /\ \E n \in 1..MaxFiles :
         /\ queueItems \in [1..n -> {queueItem(name, kind) :
                                        name \in names, kind \in FileKinds}]
         /\ fileQueue = [k \in 1..n |-> k]
    /\ conversionResults = <<>>
    /\ isProcessing = FALSE
    /\ isPaused = FALSE
    /\ runs = <<>>
    /\ \E m \in limits :
         settings = [defaultSettings EXCEPT !.maxConcurrent = m]

InitProcessing == InitApp({"a.pdf"}, ConcurrencyPool)
InitQueue == InitApp(FileNames, {defaultSettings.maxConcurrent})

\* startProcessing: const pendingFiles = this.fileQueue.filter(...).
pendingFiles(queue, heap) ==
    SelectSeq(queue, LAMBDA id : heap[id].status = "pending")

\* processFile up to its await, with the part of processPDF that runs before
\* the first wait: the status, and progressCallback(0, 'Reading file...').
beginFile(heap, id) ==
    [heap EXCEPT ![id].status = "processing", ![id].progress = 0]

\* Variant of failedItem: the catch block records the error and leaves the
\* status alone.
failedItem_Unmarked(item, message) ==
    [item EXCEPT !.error = message]

\* processFile's catch block.
failedItem(item, message) ==
    [item EXCEPT !.status = "failed", !.error = message]

\* processFile after its await: the item completed, with its result object.
completedItem(item, id) ==
    [item EXCEPT !.status = "completed", !.progress = 100,
                 !.result = <<[originalFilename |-> item.filename, item |-> id]>>]

\* The head of the loop of startProcessing after round i: the index of the
\* next round, 0 when the loop is over.
nextRound(run, paused) ==
    IF run.i < Len(run.pendingFiles) /\ ~paused THEN run.i + 1 ELSE 0

\* cancelProcessing: what it does to one queue item.
resetProcessing(item) ==
    IF item.status = "processing"
    THEN [item EXCEPT !.status = "pending", !.progress = 0, !.error = <<>>]
    ELSE item

\* retryFailedFiles: what it does to one queue item.
resetFailed(item) ==
    IF item.status = "failed"
    THEN [item EXCEPT !.status = "pending", !.progress = 0, !.error = <<>>]
    ELSE item

\* Array.findIndex on conversionResults by originalFilename; 0 for -1.
findResult(results, name) ==
    IF \E k \in 1..Len(results) : results[k].originalFilename = name
    THEN CHOOSE k \in 1..Len(results) :
            /\ results[k].originalFilename = name
            /\ \A j \in 1..(k - 1) : results[j].originalFilename # name
    ELSE 0

\* Array.splice(index, 1).
splice(s, index) ==
    [k \in 1..(Len(s) - 1) |-> IF k < index THEN s[k] ELSE s[k + 1]]

\* removeFromQueue: conversionResults after the item left the queue.
withoutResult(results, item) ==
    IF item.result # <<>> /\ findResult(results, item.filename) # 0
    THEN splice(results, findResult(results, item.filename))
    ELSE results

Awaiting(r) == runs[r].phase # "ended"
CurrentItem(r) == runs[r].pendingFiles[runs[r].i]

\* The loop of startProcessing goes on after the await of run r, in the heap
\* the settled processFile left: the next processFile, or the end of the run.
LoopOn(r, heap) ==
    LET next == nextRound(runs[r], isPaused) IN
    IF next # 0
    THEN /\ queueItems' = beginFile(heap, runs[r].pendingFiles[next])
         /\ runs' = [runs EXCEPT ![r].i = next, ![r].phase = "pages"]
         /\ abortController' = <<"controller">>
         /\ aborted' = FALSE
         /\ UNCHANGED isProcessing
    ELSE /\ queueItems' = heap
         /\ runs' = [runs EXCEPT ![r].phase = "ended"]
         /\ abortController' = <<>>
         /\ aborted' = FALSE
         /\ isProcessing' = FALSE

AppFrame ==
    UNCHANGED <<pc, pageVars, outlineVars, orderVars, doc, pageNum, result, thrown,
                analysisVars, generatorVars, settings>>

\* startProcessing up to the await of the first processFile.  The Start button
\* is disabled while isProcessing or while no queue item is pending
\* (updateProcessingSection), and retryLastOperation asks for a pending item.
StartProcessing ==
    /\ ~isProcessing
    /\ pendingFiles(fileQueue, queueItems) # <<>>
    /\ Len(runs) < MaxRuns
    /\ isProcessing' = TRUE
    /\ isPaused' = FALSE
    /\ LET pending == pendingFiles(fileQueue, queueItems) IN
       /\ queueItems' = beginFile(queueItems, pending[1])
       /\ runs' = Append(runs, [pendingFiles |-> pending, i |-> 1,
                                phase |-> "pages"])
    /\ abortController' = <<"controller">>
    /\ aborted' = FALSE
    /\ UNCHANGED <<fileQueue, conversionResults>>
    /\ AppFrame

\* The Pause and Cancel buttons are hidden unless isProcessing.
PauseProcessing ==
    /\ isProcessing
    /\ isPaused' = TRUE
    /\ UNCHANGED <<queueItems, fileQueue, conversionResults, isProcessing, runs,
                   abortController, aborted>>
    /\ AppFrame

\* PDFToMarkdownApp.cancelProcessing, PDFProcessor.cancelProcessing included.
CancelApp ==
    /\ isProcessing
    /\ isPaused' = TRUE
    /\ isProcessing' = FALSE
    /\ aborted' = (abortController # <<>>)
    /\ queueItems' = [id \in ItemIds |->
                        IF \E k \in 1..Len(fileQueue) : fileQueue[k] = id
                        THEN resetProcessing(queueItems[id])
                        ELSE queueItems[id]]
    /\ UNCHANGED <<fileQueue, conversionResults, runs, abortController>>
    /\ AppFrame

RetryFailedFiles ==
    /\ \E k \in 1..Len(fileQueue) : queueItems[fileQueue[k]].status = "failed"
    /\ queueItems' = [id \in ItemIds |->
                        IF \E k \in 1..Len(fileQueue) : fileQueue[k] = id
                        THEN resetFailed(queueItems[id])
                        ELSE queueItems[id]]
    /\ UNCHANGED <<fileQueue, conversionResults, isProcessing, isPaused, runs,
                   abortController, aborted>>
    /\ AppFrame

RemoveFromQueue(itemId) ==
    /\ \E index \in 1..Len(fileQueue) :
         /\ fileQueue[index] = itemId
         /\ fileQueue' = splice(fileQueue, index)
    /\ conversionResults' = withoutResult(conversionResults, queueItems[itemId])
    /\ UNCHANGED <<queueItems, isProcessing, isPaused, runs, abortController,
                   aborted>>
    /\ AppFrame

\* extractAllPages of the call run r awaits: the last round of the page loop
\* finds no aborted signal on this.abortController and goes on to getPage.
LastPage(r) ==
    /\ runs[r].phase = "pages"
    /\ queueItems[CurrentItem(r)].file = "good"
    /\ ~(abortController # <<>> /\ aborted)
    /\ runs' = [runs EXCEPT ![r].phase = "late"]
    /\ queueItems' = [queueItems EXCEPT ![CurrentItem(r)].progress = 70]
    /\ UNCHANGED <<fileQueue, conversionResults, isProcessing, isPaused,
                   abortController, aborted>>
    /\ AppFrame

\* The call run r awaits throws: getDocument rejects a corrupt file, or the
\* page loop finds the signal of this.abortController aborted.
Rejected(r) ==
    /\ runs[r].phase = "pages"
    /\ \/ queueItems[CurrentItem(r)].file = "corrupt"
       \/ abortController # <<>> /\ aborted
    /\ LET id == CurrentItem(r)
           message == IF queueItems[id].file = "corrupt" THEN CorruptMessage
                      ELSE CancelledMessage
       IN LoopOn(r, [queueItems EXCEPT ![id] = failedItem(@, message)])
    /\ UNCHANGED <<fileQueue, conversionResults, isPaused>>
    /\ AppFrame

\* The call run r awaits returns: the rest of processFile, then the loop.
Resolved(r) ==
    /\ runs[r].phase = "late"
    /\ LET id == CurrentItem(r)
           done == completedItem(queueItems[id], id)
       IN /\ conversionResults' = Append(conversionResults, done.result[1])
          /\ LoopOn(r, [queueItems EXCEPT ![id] = done])
    /\ UNCHANGED <<fileQueue, isPaused>>
    /\ AppFrame

Settle(r) == LastPage(r) \/ Rejected(r) \/ Resolved(r)

NextProcessing ==
    \/ StartProcessing
    \/ PauseProcessing
    \/ CancelApp
    \/ \E r \in RunIds : LastPage(r)
    \/ \E r \in RunIds : Rejected(r)
    \/ \E r \in RunIds : Resolved(r)

SpecProcessing == InitProcessing /\ [][NextProcessing]_vars

\* A promise that can settle does settle: each run's awaited call goes on.
SpecProcessingFair ==
    /\ InitApp({"a.pdf"}, {defaultSettings.maxConcurrent})
    /\ [][NextProcessing]_vars
    /\ \A r \in 1..MaxRuns : WF_vars(r \in RunIds /\ Settle(r))

NextQueue ==
    \/ StartProcessing
    \/ PauseProcessing
    \/ CancelApp
    \/ \E r \in RunIds : LastPage(r)
    \/ \E r \in RunIds : Rejected(r)
    \/ \E r \in RunIds : Resolved(r)
    \/ RetryFailedFiles
    \/ \E itemId \in ItemIds : RemoveFromQueue(itemId)

SpecQueue == InitQueue /\ [][NextQueue]_vars

SpecQueueFair ==
    SpecQueue /\ \A r \in 1..MaxRuns : WF_vars(r \in RunIds /\ Settle(r))

InFlight == Cardinality({r \in RunIds : Awaiting(r)})

\* C22: while a run waits for a conversion and fewer than
\* settings.maxConcurrent conversions are in flight, none of the run's later
\* files is still pending: the run has started as many as the limit allows.
C22_ConvertsUpToMaxConcurrent ==
    \A r \in RunIds :
        (Awaiting(r) /\ ~isPaused /\ InFlight < settings.maxConcurrent)
        => \A k \in (runs[r].i + 1)..Len(runs[r].pendingFiles) :
              queueItems[runs[r].pendingFiles[k]].status # "pending"

\* The queue items run r has called processFile on.
StartedBy(r) == {runs[r].pendingFiles[k] : k \in 1..runs[r].i}

\* C24: under any sequence of Start, Pause and Cancel at most one conversion
\* is in flight, and no queue item is converted by two runs.
C24_OneRunAtATime ==
    /\ InFlight <= 1
    /\ \A r1, r2 \in RunIds : r1 # r2 => StartedBy(r1) \cap StartedBy(r2) = {}

\* Run r leaves its await in this step: the conversion it waited for settled.
Settles(r) ==
    /\ r \in RunIds
    /\ Awaiting(r)
    /\ runs'[r].i # runs[r].i \/ runs'[r].phase = "ended"

\* C25: when the conversion that was in flight at cancelProcessing settles
\* (its item was reset to 'pending' by the cancel), the item has status
\* 'pending', progress 0 and no error.
C25_CancelledItemStaysPending ==
    [][\A r \in 1..MaxRuns :
          (Settles(r) /\ queueItems[CurrentItem(r)].status = "pending")
          => LET item == queueItems'[CurrentItem(r)]
             IN item.status = "pending" /\ item.progress = 0 /\ item.error = <<>>]_vars

InQueue(queue, id) == \E k \in 1..Len(queue) : queue[k] = id
ResultsOf(results, id) == Cardinality({k \in 1..Len(results) : results[k].item = id})

\* C30: removeFromQueue on a completed item takes that item's own result out
\* of conversionResults and leaves the results of every other item in place.
C30_RemovesOwnResult ==
    [][\A itemId \in 1..MaxFiles :
          (/\ itemId \in ItemIds
           /\ InQueue(fileQueue, itemId)
           /\ ~InQueue(fileQueue', itemId)
           /\ queueItems[itemId].status = "completed")
          => \A id \in ItemIds :
                ResultsOf(conversionResults', id) =
                   ResultsOf(conversionResults, id) - (IF id = itemId THEN 1 ELSE 0)]_vars

\* C23: a queue item that failed is set back to 'pending' in the end, with
\* no action of the user.
C23_FailedIsRetried ==
    \A id \in 1..MaxFiles :
        (id \in ItemIds /\ InQueue(fileQueue, id) /\ queueItems[id].status = "failed")
        ~> (id \in ItemIds /\ (~InQueue(fileQueue, id) \/ queueItems[id].status = "pending"))

\* Queue item id is the file a waiting run converts, or one of its later files.
Ahead(id) ==
    \E r \in RunIds :
        /\ Awaiting(r)
        /\ \E k \in runs[r].i..Len(runs[r].pendingFiles) : runs[r].pendingFiles[k] = id

\* C26: a conversion that throws leaves its item 'failed'; every file a run
\* has still to convert is completed or failed in the end unless the run is
\* paused or cancelled; isProcessing is false when no run is left.
C26_RunFinishesItsFiles ==
    /\ [][\A r \in 1..MaxRuns :
             (Settles(r) /\ queueItems[CurrentItem(r)].file = "corrupt")
             => queueItems'[CurrentItem(r)].status = "failed"]_vars
    /\ \A id \in 1..MaxFiles :
          (id \in ItemIds /\ Ahead(id))
          ~> (id \in ItemIds
                 /\ (queueItems[id].status \in {"completed", "failed"} \/ isPaused))
    /\ []((\A r \in RunIds : ~Awaiting(r)) => ~isProcessing)

\* A run that was never paused went past a failed file and completed the next.
C26_Witness ==
    /\ Len(runs) = 1
    /\ runs[1].phase = "ended"
    /\ Len(runs[1].pendingFiles) = 2
    /\ ~isPaused
    /\ ~isProcessing
    /\ queueItems[runs[1].pendingFiles[1]].status = "failed"
    /\ queueItems[runs[1].pendingFiles[2]].status = "completed"

====
